---- MODULE Spec2Model ----
(***************************************************************************)
(* Model of the per-frame algorithms of behavysis_pipeline:                *)
(*   - merge_bouts            (processes/classify_behaviours.py)           *)
(*   - decice_switch          (processes/preprocess.py)                    *)
(*   - switch_identities      (processes/preprocess.py)                    *)
(* A per-frame series is a sequence; position p of a series whose first    *)
(* frame number is `first` holds frame first + p - 1.                      *)
(***************************************************************************)
EXTENDS Integers, Sequences, FiniteSets, TLC

\* ------------------------------------------------------------------ bounds
MaxLen == 6        \* longest 0/1 series handed to merge_bouts
MaxK == 4          \* largest min_window_frames
MaxFrames == 5     \* most frames of a table handed to decice_switch
MaxFirst == 2      \* largest first frame number of a (trimmed) table
MaxWindow == 3     \* largest window_frames of decice_switch
MaxRows == 2       \* most frames of a table handed to switch_identities

VARIABLES
    pc,                 \* position of the modelled call
    vect,               \* merge_bouts: the input 0/1 series
    min_window_frames,  \* merge_bouts: the threshold
    merged,             \* result of the first merge_bouts call
    remerged,           \* result of merge_bouts on `merged`
    bouts,              \* rows of vect_2_bouts(vect == 1)
    first,              \* decice_switch: df_aggr.index.min()
    dist_marked,        \* decice_switch: df_aggr[(marked, "dist")]
    dist_unmarked,      \* decice_switch: df_aggr[(unmarked, "dist")]
    window_frames,      \* decice_switch: the window
    current,            \* df_switch["current"]
    rolling,            \* df_switch["rolling"]
    binned,             \* df_switch["binned"]
    frame_bin,          \* the bin label pd.cut gives each frame of the index
    df,                 \* switch_identities: the keypoint table, row by row
    is_switch,          \* switch_identities: the switch series
    marked,             \* switch_identities: the marked individual
    unmarked,           \* switch_identities: the unmarked individual
    df_switched,        \* switch_identities(df, is_switch, marked, unmarked)
    df_switched2,       \* switch_identities(df_switched, is_switch, ...)
    dlc_header,         \* refine_ids: the individuals and bodyparts of the table
    refine_cfg,         \* refine_ids: marked, unmarked, marking, bodyparts
    ids_switched,       \* refine_ids: switch_identities has run
    out_written,        \* refine_ids: the output file has been written
    temp_df,            \* freezing: smoothed displacement of each bodypart, frame by frame
    thresh_px,          \* freezing: the displacement threshold
    fz_window_frames,   \* freezing: the minimum length of a freezing bout
    fz_raw,             \* freezing: the frozen flag before the bout filter
    fz,                 \* freezing: the frozen column of analysis_df
    sp_df,              \* speed: x and y of each bodypart of one individual, frame by frame
    sp_fps,             \* speed: frames per second
    sp_px_per_mm,       \* speed: pixels per millimetre
    sp_speed,           \* speed: the SpeedMMperSec column before the back-fill
    sp_out,             \* speed: the SpeedMMperSec column that is saved
    sd_df,              \* social_distance: x and y of each bodypart of the two individuals
    sd_px_per_mm,       \* social_distance: pixels per millimetre
    sd_dist,            \* social_distance: the DistMM column
    st_lhoods,          \* start_frame: likelihood of each bodypart, frame by frame
    st_pcutoff,         \* start_frame: pcutoff
    st_window_frames,   \* start_frame: the window
    st_outcome,         \* start_frame: the returned outcome string
    st_start_frame,     \* start_frame: configs.auto.start_frame
    bt_exps,            \* _process_scaffold: the experiments of the project (exp<n>)
    bt_fails,           \* _process_scaffold: the experiments on which the method raises
    bt_nprocs,          \* _process_scaffold: self.nprocs
    bt_pending,         \* _process_scaffold: experiments not yet handed to the method, in order
    bt_running,         \* _process_scaffold_mp: tasks a pool worker is running
    bt_results,         \* _process_scaffold: what the method gave for each finished experiment
    bt_finish_order,    \* _process_scaffold: the experiments in the order they finished
    bt_dd_ls,           \* _process_scaffold: dd_ls
    bt_diag,            \* _process_scaffold: the table handed to save_diagnostics
    pj_files,           \* Project: the names that have files in the project folders
    pj_experiments,     \* Project: self.experiments, name to Experiment object
    pj_before,          \* Project: self.experiments as it was before the last call
    pj_made,            \* Project: number of Experiment objects constructed so far
    pj_calls,           \* Project: number of calls made so far
    pj_last,            \* Project: the last call, its argument and what it gave
    ag_df,              \* refine_ids: the keypoint table, x and y per individual and bodypart
    ag_dist_marked,     \* refine_ids: df_aggr[(marked, "dist")]
    ag_dist_unmarked,   \* refine_ids: df_aggr[(unmarked, "dist")]
    ag_current,         \* refine_ids: df_switch["current"]
    ag_out,             \* refine_ids: df_switched for metric = "current"
    tr_lhoods,          \* trim: the keypoint table (likelihood per bodypart), frames from 0
    tr_pcutoff,         \* trim: pcutoff of start_frame
    tr_window_frames,   \* trim: window_frames of start_frame
    tr_dur_halves,      \* trim: dur_sec of stop_frame, in half seconds
    tr_fps,             \* trim: configs.auto.formatted_vid.fps
    tr_start_frame,     \* trim: configs.auto.start_frame
    tr_stop_frame,      \* trim: configs.auto.stop_frame
    tr_outcome,         \* trim: the outcome string of stop_frame
    tr_out,             \* trim: the frame numbers of the trimmed table, in order
    ip_df,              \* interpolate: x, y and likelihood of one bodypart, frame by frame
    ip_pcutoff,         \* interpolate: pcutoff
    ip_fillna_inplace,  \* interpolate: the in-place fillna on the selected column reaches df
    ip_removed,         \* interpolate: df after the low-likelihood points were set to NaN
    ip_out,             \* interpolate: the table written, values times InterpScale
    ts_x,               \* TimeSeriesDataset: the array x, one value per row
    ts_has_y,           \* TimeSeriesDataset: y is not None
    ts_y,               \* TimeSeriesDataset: the labels y
    ts_has_index,       \* TimeSeriesDataset: index is not None
    ts_index,           \* TimeSeriesDataset: the index passed, 0-based label positions
    ts_window_frames,   \* TimeSeriesDataset: window_frames
    ts_batch_size,      \* predict: batch_size
    ts_net_short,       \* predict: the network accepts a window shorter than 2n+1
    ts_ds,              \* the TimeSeriesDataset object
    ts_item,            \* the last item taken with __getitem__
    ts_pred,            \* what BaseTorchModel.predict returned
    th_thresh_mm,       \* freezing: thresh_mm
    th_px_per_mm,       \* px_per_mm, a fraction num/den
    th_delta,           \* a displacement in pixels
    th_thresh_px,       \* freezing: thresh_px, a fraction
    th_below_px,        \* freezing: delta < thresh_px
    th_delta_mm,        \* speed: delta / px_per_mm, a fraction
    sg_method,          \* the Project method called: classify_behaviours or export_behaviours
    sg_saved,           \* the local nprocs of that method
    sg_before           \* Project.nprocs when the method was called

boutVars == <<vect, min_window_frames, merged, remerged, bouts>>
voteVars == <<first, dist_marked, dist_unmarked, window_frames,
              current, rolling, binned, frame_bin>>
switchVars == <<df, is_switch, marked, unmarked, df_switched, df_switched2>>
refineVars == <<dlc_header, refine_cfg, ids_switched, out_written>>
freezeVars == <<temp_df, thresh_px, fz_window_frames, fz_raw, fz>>
speedVars == <<sp_df, sp_fps, sp_px_per_mm, sp_speed, sp_out>>
socialVars == <<sd_df, sd_px_per_mm, sd_dist>>
startVars == <<st_lhoods, st_pcutoff, st_window_frames, st_outcome, st_start_frame>>
batchVars == <<bt_exps, bt_fails, bt_nprocs, bt_pending, bt_running, bt_results, bt_finish_order, bt_dd_ls, bt_diag>>
projectVars == <<pj_files, pj_experiments, pj_before, pj_made, pj_calls, pj_last>>
aggrVars == <<ag_df, ag_dist_marked, ag_dist_unmarked, ag_current, ag_out>>
trimVars == <<tr_lhoods, tr_pcutoff, tr_window_frames, tr_dur_halves, tr_fps, tr_start_frame, tr_stop_frame, tr_outcome, tr_out>>
interpVars == <<ip_df, ip_pcutoff, ip_fillna_inplace, ip_removed, ip_out>>
tsdVars == <<ts_x, ts_has_y, ts_y, ts_has_index, ts_index, ts_window_frames, ts_batch_size, ts_net_short, ts_ds, ts_item, ts_pred>>
threshVars == <<th_thresh_mm, th_px_per_mm, th_delta, th_thresh_px, th_below_px, th_delta_mm>>
singleVars == <<sg_method, sg_saved, sg_before>>
coreVars == <<boutVars, voteVars, switchVars>>
otherVars == <<refineVars, freezeVars, speedVars, socialVars, startVars, batchVars, projectVars, aggrVars, trimVars, interpVars, tsdVars, threshVars, singleVars>>
exceptRefine == <<coreVars, freezeVars, speedVars, socialVars, startVars, batchVars, projectVars, aggrVars, trimVars, interpVars, tsdVars, threshVars, singleVars>>
exceptFreeze == <<coreVars, refineVars, speedVars, socialVars, startVars, batchVars, projectVars, aggrVars, trimVars, interpVars, tsdVars, threshVars, singleVars>>
exceptSpeed == <<coreVars, refineVars, freezeVars, socialVars, startVars, batchVars, projectVars, aggrVars, trimVars, interpVars, tsdVars, threshVars, singleVars>>
exceptSocial == <<coreVars, refineVars, freezeVars, speedVars, startVars, batchVars, projectVars, aggrVars, trimVars, interpVars, tsdVars, threshVars, singleVars>>
exceptStart == <<coreVars, refineVars, freezeVars, speedVars, socialVars, batchVars, projectVars, aggrVars, trimVars, interpVars, tsdVars, threshVars, singleVars>>
exceptBatch == <<coreVars, refineVars, freezeVars, speedVars, socialVars, startVars, projectVars, aggrVars, trimVars, interpVars, tsdVars, threshVars, singleVars>>
exceptProject == <<coreVars, refineVars, freezeVars, speedVars, socialVars, startVars, batchVars, aggrVars, trimVars, interpVars, tsdVars, threshVars, singleVars>>
exceptAggr == <<coreVars, refineVars, freezeVars, speedVars, socialVars, startVars, batchVars, projectVars, trimVars, interpVars, tsdVars, threshVars, singleVars>>
exceptTrim == <<coreVars, refineVars, freezeVars, speedVars, socialVars, startVars, batchVars, projectVars, aggrVars, interpVars, tsdVars, threshVars, singleVars>>
exceptInterp == <<coreVars, refineVars, freezeVars, speedVars, socialVars, startVars, batchVars, projectVars, aggrVars, trimVars, tsdVars, threshVars, singleVars>>
exceptTsd == <<coreVars, refineVars, freezeVars, speedVars, socialVars, startVars, batchVars, projectVars, aggrVars, trimVars, interpVars, threshVars, singleVars>>
exceptThresh == <<coreVars, refineVars, freezeVars, speedVars, socialVars, startVars, batchVars, projectVars, aggrVars, trimVars, interpVars, tsdVars, singleVars>>
exceptSingle == <<coreVars, refineVars, freezeVars, speedVars, socialVars, startVars, batchVars, projectVars, aggrVars, trimVars, interpVars, tsdVars, threshVars>>
vars == <<pc, boutVars, voteVars, switchVars, otherVars>>

\* ------------------------------------------------------------ bout helpers

\* All 0/1 series of length 0..n.
Series01(n) == UNION {[1..m -> {0, 1}] : m \in 0..n}

\* The worked example of the documentation (13 frames).
ExampleVect == <<0, 0, 1, 1, 1, 0, 0, 1, 0, 1, 1, 1, 1>>

\* `vect == 0` / `vect == 1`: the elementwise comparison of a series.
EqSeries(v, x) == [i \in 1..Len(v) |-> v[i] = x]

\* Last position of the run of true values that starts at position i.
RECURSIVE RunStop(_, _)
RunStop(b, i) ==
    IF i < Len(b) /\ b[i + 1] THEN RunStop(b, i + 1) ELSE i

\* Rows (start, stop, dur) of the maximal true runs of b from position i on.
RECURSIVE BoutsFrom(_, _)
BoutsFrom(b, i) ==
    IF i > Len(b) THEN <<>>
    ELSE IF b[i]
         THEN LET j == RunStop(b, i)
              IN  <<[start |-> i, stop |-> j, dur |-> j - i + 1]>>
                      \o BoutsFrom(b, j + 1)
         ELSE BoutsFrom(b, i + 1)

\* Mutant: a run that reaches the last frame is not reported.
vect_2_bouts_open(b) ==
    SelectSeq(BoutsFrom(b, 1), LAMBDA r : r.stop < Len(b))

\* BehaviourMixin.vect_2_bouts: one row per maximal true run, ascending.
vect_2_bouts(b) == BoutsFrom(b, 1)

\* vect.loc[start : stop] = value  (label slice, both ends inclusive).
SetLoc(v, start, stop, value) ==
    [i \in 1..Len(v) |-> IF start <= i /\ i <= stop THEN value ELSE v[i]]

\* The loop of merge_bouts over the rows of nonbouts_df, from row r on.
RECURSIVE MergeRows(_, _, _, _)
MergeRows(v, rows, k, r) ==
    IF r > Len(rows) THEN v
    ELSE MergeRows(IF rows[r].dur < k
                   THEN SetLoc(v, rows[r].start, rows[r].stop, 1)
                   ELSE v,
                   rows, k, r + 1)

\* Mutant: a gap as long as the threshold is filled too.
RECURSIVE MergeRowsLe(_, _, _, _)
MergeRowsLe(v, rows, k, r) ==
    IF r > Len(rows) THEN v
    ELSE MergeRowsLe(IF rows[r].dur <= k
                     THEN SetLoc(v, rows[r].start, rows[r].stop, 1)
                     ELSE v,
                     rows, k, r + 1)

merge_bouts_le(v, k) == MergeRowsLe(v, vect_2_bouts(EqSeries(v, 0)), k, 1)

\* Mutant: only the first frame of a short gap is filled (start used twice).
RECURSIVE MergeRowsFirst(_, _, _, _)
MergeRowsFirst(v, rows, k, r) ==
    IF r > Len(rows) THEN v
    ELSE MergeRowsFirst(IF rows[r].dur < k
                        THEN SetLoc(v, rows[r].start, rows[r].start, 1)
                        ELSE v,
                        rows, k, r + 1)

merge_bouts_first(v, k) == MergeRowsFirst(v, vect_2_bouts(EqSeries(v, 0)), k, 1)

\* Mutant: the comparison is reversed, the long gaps are the ones filled.
RECURSIVE MergeRowsGt(_, _, _, _)
MergeRowsGt(v, rows, k, r) ==
    IF r > Len(rows) THEN v
    ELSE MergeRowsGt(IF rows[r].dur > k
                     THEN SetLoc(v, rows[r].start, rows[r].stop, 1)
                     ELSE v,
                     rows, k, r + 1)

merge_bouts_gt(v, k) == MergeRowsGt(v, vect_2_bouts(EqSeries(v, 0)), k, 1)

\* merge_bouts(vect, min_window_frames)
merge_bouts(v, k) == MergeRows(v, vect_2_bouts(EqSeries(v, 0)), k, 1)

\* ------------------------------------------------------------ bouts: spec

\* The variables of decice_switch while another function is exercised.
VoteIdle ==
    /\ first = 0
    /\ dist_marked = <<>>
    /\ dist_unmarked = <<>>
    /\ window_frames = 1
    /\ current = <<>>
    /\ rolling = <<>>
    /\ binned = <<>>
    /\ frame_bin = <<>>

\* The variables of switch_identities while another function is exercised.
SwitchIdle ==
    /\ df = <<>>
    /\ is_switch = <<>>
    /\ marked = "mouse1"
    /\ unmarked = "mouse2"
    /\ df_switched = <<>>
    /\ df_switched2 = <<>>

BoutsIdle ==
    /\ vect = <<>>
    /\ min_window_frames = 0
    /\ merged = <<>>
    /\ remerged = <<>>
    /\ bouts = <<>>

\* The variables of refine_ids while another function is exercised.
RefineIdle ==
    /\ dlc_header = [animals |-> {}, animal_bpts |-> {}, single_bpts |-> {}]
    /\ refine_cfg = [marked |-> "", unmarked |-> "", marking |-> "",
                     bodyparts |-> {}]
    /\ ids_switched = FALSE
    /\ out_written = FALSE

\* The variables of every function modelled further down, idle.
FreezeIdle ==
    /\ temp_df = <<>>
    /\ thresh_px = 0
    /\ fz_window_frames = 0
    /\ fz_raw = <<>>
    /\ fz = <<>>

SpeedIdle ==
    /\ sp_df = <<>>
    /\ sp_fps = 0
    /\ sp_px_per_mm = 0
    /\ sp_speed = <<>>
    /\ sp_out = <<>>

SocialIdle ==
    /\ sd_df = <<>>
    /\ sd_px_per_mm = 0
    /\ sd_dist = <<>>

StartIdle ==
    /\ st_lhoods = <<>>
    /\ st_pcutoff = 0
    /\ st_window_frames = 0
    /\ st_outcome = ""
    /\ st_start_frame = 0 - 1

BatchIdle ==
    /\ bt_exps = {}
    /\ bt_fails = {}
    /\ bt_nprocs = 0
    /\ bt_pending = <<>>
    /\ bt_running = {}
    /\ bt_results = <<>>
    /\ bt_finish_order = <<>>
    /\ bt_dd_ls = <<>>
    /\ bt_diag = <<>>

ProjectIdle ==
    /\ pj_files = {}
    /\ pj_experiments = <<>>
    /\ pj_before = <<>>
    /\ pj_made = 0
    /\ pj_calls = 0
    /\ pj_last = [name |-> "", result |-> "", obj |-> 0]

AggrIdle ==
    /\ ag_df = <<>>
    /\ ag_dist_marked = <<>>
    /\ ag_dist_unmarked = <<>>
    /\ ag_current = <<>>
    /\ ag_out = <<>>

TrimIdle ==
    /\ tr_lhoods = <<>>
    /\ tr_pcutoff = 0
    /\ tr_window_frames = 0
    /\ tr_dur_halves = 0
    /\ tr_fps = 0
    /\ tr_start_frame = 0 - 1
    /\ tr_stop_frame = 0 - 1
    /\ tr_outcome = ""
    /\ tr_out = <<>>

InterpIdle ==
    /\ ip_df = <<>>
    /\ ip_pcutoff = 0
    /\ ip_fillna_inplace = FALSE
    /\ ip_removed = <<>>
    /\ ip_out = <<>>

TsdIdle ==
    /\ ts_x = <<>>
    /\ ts_has_y = FALSE
    /\ ts_y = <<>>
    /\ ts_has_index = FALSE
    /\ ts_index = <<>>
    /\ ts_window_frames = 0
    /\ ts_batch_size = 0
    /\ ts_net_short = FALSE
    /\ ts_ds = [x |-> <<>>, y |-> <<>>, index |-> <<>>, window_frames |-> 0]
    /\ ts_item = [pos |-> 0 - 1, i |-> 0 - 1, x |-> <<>>, y |-> 0, raised |-> FALSE]
    /\ ts_pred = [outcome |-> "", probs |-> <<>>]

ThreshIdle ==
    /\ th_thresh_mm = 0
    /\ th_px_per_mm = [num |-> 0, den |-> 0]
    /\ th_delta = 0
    /\ th_thresh_px = [num |-> 0, den |-> 0]
    /\ th_below_px = FALSE
    /\ th_delta_mm = [num |-> 0, den |-> 0]

SingleIdle ==
    /\ sg_method = ""
    /\ sg_saved = 0
    /\ sg_before = 0

OthersIdle == RefineIdle /\ FreezeIdle /\ SpeedIdle /\ SocialIdle /\ StartIdle /\ BatchIdle /\ ProjectIdle /\ AggrIdle /\ TrimIdle /\ InterpIdle /\ TsdIdle /\ ThreshIdle /\ SingleIdle
IdleExceptRefine == BoutsIdle /\ VoteIdle /\ SwitchIdle /\ FreezeIdle /\ SpeedIdle /\ SocialIdle /\ StartIdle /\ BatchIdle /\ ProjectIdle /\ AggrIdle /\ TrimIdle /\ InterpIdle /\ TsdIdle /\ ThreshIdle /\ SingleIdle
IdleExceptFreeze == BoutsIdle /\ VoteIdle /\ SwitchIdle /\ RefineIdle /\ SpeedIdle /\ SocialIdle /\ StartIdle /\ BatchIdle /\ ProjectIdle /\ AggrIdle /\ TrimIdle /\ InterpIdle /\ TsdIdle /\ ThreshIdle /\ SingleIdle
IdleExceptSpeed == BoutsIdle /\ VoteIdle /\ SwitchIdle /\ RefineIdle /\ FreezeIdle /\ SocialIdle /\ StartIdle /\ BatchIdle /\ ProjectIdle /\ AggrIdle /\ TrimIdle /\ InterpIdle /\ TsdIdle /\ ThreshIdle /\ SingleIdle
IdleExceptSocial == BoutsIdle /\ VoteIdle /\ SwitchIdle /\ RefineIdle /\ FreezeIdle /\ SpeedIdle /\ StartIdle /\ BatchIdle /\ ProjectIdle /\ AggrIdle /\ TrimIdle /\ InterpIdle /\ TsdIdle /\ ThreshIdle /\ SingleIdle
IdleExceptStart == BoutsIdle /\ VoteIdle /\ SwitchIdle /\ RefineIdle /\ FreezeIdle /\ SpeedIdle /\ SocialIdle /\ BatchIdle /\ ProjectIdle /\ AggrIdle /\ TrimIdle /\ InterpIdle /\ TsdIdle /\ ThreshIdle /\ SingleIdle
IdleExceptBatch == BoutsIdle /\ VoteIdle /\ SwitchIdle /\ RefineIdle /\ FreezeIdle /\ SpeedIdle /\ SocialIdle /\ StartIdle /\ ProjectIdle /\ AggrIdle /\ TrimIdle /\ InterpIdle /\ TsdIdle /\ ThreshIdle /\ SingleIdle
IdleExceptProject == BoutsIdle /\ VoteIdle /\ SwitchIdle /\ RefineIdle /\ FreezeIdle /\ SpeedIdle /\ SocialIdle /\ StartIdle /\ BatchIdle /\ AggrIdle /\ TrimIdle /\ InterpIdle /\ TsdIdle /\ ThreshIdle /\ SingleIdle
IdleExceptAggr == BoutsIdle /\ VoteIdle /\ SwitchIdle /\ RefineIdle /\ FreezeIdle /\ SpeedIdle /\ SocialIdle /\ StartIdle /\ BatchIdle /\ ProjectIdle /\ TrimIdle /\ InterpIdle /\ TsdIdle /\ ThreshIdle /\ SingleIdle
IdleExceptTrim == BoutsIdle /\ VoteIdle /\ SwitchIdle /\ RefineIdle /\ FreezeIdle /\ SpeedIdle /\ SocialIdle /\ StartIdle /\ BatchIdle /\ ProjectIdle /\ AggrIdle /\ InterpIdle /\ TsdIdle /\ ThreshIdle /\ SingleIdle
IdleExceptInterp == BoutsIdle /\ VoteIdle /\ SwitchIdle /\ RefineIdle /\ FreezeIdle /\ SpeedIdle /\ SocialIdle /\ StartIdle /\ BatchIdle /\ ProjectIdle /\ AggrIdle /\ TrimIdle /\ TsdIdle /\ ThreshIdle /\ SingleIdle
IdleExceptTsd == BoutsIdle /\ VoteIdle /\ SwitchIdle /\ RefineIdle /\ FreezeIdle /\ SpeedIdle /\ SocialIdle /\ StartIdle /\ BatchIdle /\ ProjectIdle /\ AggrIdle /\ TrimIdle /\ InterpIdle /\ ThreshIdle /\ SingleIdle
IdleExceptThresh == BoutsIdle /\ VoteIdle /\ SwitchIdle /\ RefineIdle /\ FreezeIdle /\ SpeedIdle /\ SocialIdle /\ StartIdle /\ BatchIdle /\ ProjectIdle /\ AggrIdle /\ TrimIdle /\ InterpIdle /\ TsdIdle /\ SingleIdle
IdleExceptSingle == BoutsIdle /\ VoteIdle /\ SwitchIdle /\ RefineIdle /\ FreezeIdle /\ SpeedIdle /\ SocialIdle /\ StartIdle /\ BatchIdle /\ ProjectIdle /\ AggrIdle /\ TrimIdle /\ InterpIdle /\ TsdIdle /\ ThreshIdle

InitBouts ==
    /\ pc = "bouts_input"
    /\ vect \in Series01(MaxLen) \cup {ExampleVect}
    /\ min_window_frames \in 0..MaxK
    /\ merged = <<>>
    /\ remerged = <<>>
    /\ bouts = <<>>
    /\ VoteIdle
    /\ SwitchIdle
    /\ OthersIdle

\* df_i[pred_col] = merge_bouts(df_i[pred_col], min_window_frames)
MergeBouts ==
    /\ pc = "bouts_input"
    /\ merged' = merge_bouts(vect, min_window_frames)
    /\ pc' = "merged"
    /\ UNCHANGED <<vect, min_window_frames, remerged, bouts, voteVars, switchVars,
                 otherVars>>

\* merge_bouts applied to its own result with the same threshold.
MergeBoutsAgain ==
    /\ pc = "merged"
    /\ remerged' = merge_bouts(merged, min_window_frames)
    /\ pc' = "remerged"
    /\ UNCHANGED <<vect, min_window_frames, merged, bouts, voteVars, switchVars,
                 otherVars>>

\* BehaviourMixin.vect_2_bouts(vect == 1)
ExtractBouts ==
    /\ pc = "bouts_input"
    /\ bouts' = vect_2_bouts(EqSeries(vect, 1))
    /\ pc' = "extracted"
    /\ UNCHANGED <<vect, min_window_frames, merged, remerged, voteVars, switchVars,
                 otherVars>>

NextBouts == MergeBouts \/ MergeBoutsAgain \/ ExtractBouts

SpecBouts == InitBouts /\ [][NextBouts]_vars

\* ---------------------------------------------------------- bouts: claims

\* [a, b] is a maximal run of 0-frames of v.
IsZeroRun(v, a, b) ==
    /\ a \in 1..Len(v) /\ b \in a..Len(v)
    /\ \A i \in a..b : v[i] = 0
    /\ (a = 1 \/ v[a - 1] = 1)
    /\ (b = Len(v) \/ v[b + 1] = 1)

ZeroRuns(v) == {ab \in (1..Len(v)) \X (1..Len(v)) : IsZeroRun(v, ab[1], ab[2])}

\* C1: merging the short gaps of an already merged series, with the same
\* threshold, changes nothing: merge_bouts(merge_bouts(s, k), k) equals
\* merge_bouts(s, k).
C1_MergeIdempotent ==
    pc = "remerged" => remerged = merged

C1_Witness ==
    /\ pc = "remerged"
    /\ merged # vect
    /\ ZeroRuns(merged) # {}

\* C2: a maximal run of 0-frames becomes 1 exactly when its frame count
\* (stop - start + 1) is strictly less than min_window_frames, runs at or
\* above the threshold stay 0 and the 1-frames stay 1; the documented example
\* with threshold 2 gives <<0,0,1,1,1,0,0,1,1,1,1,1,1>>.
C2_MergeShortGapsOnly ==
    pc = "merged" =>
        /\ Len(merged) = Len(vect)
        /\ \A ab \in ZeroRuns(vect) :
              \A i \in ab[1]..ab[2] :
                 merged[i] = IF ab[2] - ab[1] + 1 < min_window_frames
                             THEN 1 ELSE 0
        /\ \A i \in 1..Len(vect) : vect[i] = 1 => merged[i] = 1
        /\ (vect = ExampleVect /\ min_window_frames = 2)
              => merged = <<0, 0, 1, 1, 1, 0, 0, 1, 1, 1, 1, 1, 1>>

C2_Witness ==
    /\ pc = "merged"
    /\ vect = ExampleVect
    /\ min_window_frames = 2
    /\ merged[9] = 1 /\ merged[6] = 0

\* C3: the result of merge_bouts(s, k) has no maximal run of 0-frames whose
\* length is less than k.
C3_NoShortGapLeft ==
    pc = "merged" =>
        \A ab \in ZeroRuns(merged) : ab[2] - ab[1] + 1 >= min_window_frames

C3_Witness ==
    /\ pc = "merged"
    /\ merged # vect
    /\ ZeroRuns(merged) # {}
    /\ min_window_frames >= 2

\* C4: for thresholds k' <= k every frame that is 1 in merge_bouts(s, k') is
\* 1 in merge_bouts(s, k); with k' = 0 the result is s itself, so no frame of
\* the thresholded prediction is turned off.
C4_MergeMonotone ==
    pc = "merged" =>
        /\ merge_bouts(vect, 0) = vect
        /\ \A k2 \in 0..min_window_frames :
              \A i \in 1..Len(vect) :
                 merge_bouts(vect, k2)[i] = 1 => merged[i] = 1

C4_Witness ==
    /\ pc = "merged"
    /\ min_window_frames >= 3
    /\ merge_bouts(vect, 2) # vect
    /\ merge_bouts(vect, 2) # merged

\* The series with exactly the frames start..stop of every row set to true.
FramesOfBouts(rows, n) ==
    [i \in 1..n |-> \E r \in 1..Len(rows) : rows[r].start <= i /\ i <= rows[r].stop]

\* C5: the bouts of a boolean series (maximal true runs with start, stop and
\* duration, ascending) cover exactly its true frames: setting the frames
\* start..stop of every bout to true reproduces the series, also for the
\* empty, the all-true and the alternating series.
C5_BoutsRoundTrip ==
    pc = "extracted" =>
        /\ FramesOfBouts(bouts, Len(vect)) = EqSeries(vect, 1)
        /\ \A r \in 1..Len(bouts) :
              /\ bouts[r].start <= bouts[r].stop
              /\ bouts[r].dur = bouts[r].stop - bouts[r].start + 1
              /\ r < Len(bouts) => bouts[r].stop + 1 < bouts[r + 1].start

C5_Witness ==
    /\ pc = "extracted"
    /\ vect = <<1, 0, 1, 0, 1, 1>>
    /\ Len(bouts) = 3
    /\ bouts[3] = [start |-> 5, stop |-> 6, dur |-> 2]

\* ------------------------------------------------------- decice_switch

\* Distances only enter through `>`: two values give every ordering.
DistValues == {1, 2}

DistSeries(n) == UNION {[1..m -> DistValues] : m \in 1..n}

\* df_aggr[(marked, "dist")] > df_aggr[(unmarked, "dist")]
Current(dm, du) == [p \in 1..Len(dm) |-> dm[p] > du[p]]

\* The boolean column as rolling().apply sees it: floats 0.0 / 1.0.
AsFloat(c) == [p \in 1..Len(c) |-> IF c[p] THEN 1 ELSE 0]

\* Mutant: the window reaches one frame further back.
WindowWide(p, w) == {q \in 1..p : q >= p - w}

\* .rolling(window_frames, min_periods=1): the positions of the window that
\* ends at position p, cut off at the start of the series.
Window(p, w) == {q \in 1..p : q > p - w}

\* Number of the positions in S at which x holds the value v.
CountIn(x, S, v) == Cardinality({q \in S : x[q] = v})

\* x.mode(): the values of x over S that occur most often.
Modes(x, S, values) ==
    {v \in values :
        /\ CountIn(x, S, v) > 0
        /\ \A u \in values : CountIn(x, S, u) <= CountIn(x, S, v)}

\* x.mode()[0]: mode() is sorted ascending, [0] is its smallest value.
FirstMode(x, S) ==
    LET m == Modes(x, S, {0, 1})
    IN  CHOOSE v \in m : \A u \in m : v <= u

\* .map({1: True, 0: False})
MapBool(v) == (v = 1)

\* df_switch["rolling"]
Rolling(c, w) ==
    [p \in 1..Len(c) |-> MapBool(FirstMode(AsFloat(c), Window(p, w)))]

\* np.arange(start, stop, step)
Arange(start, stop, step) ==
    LET n == IF stop > start THEN (stop - start + step - 1) \div step ELSE 0
    IN  [i \in 1..n |-> start + (i - 1) * step]

\* Mutant: the bin edges start at frame 0, whatever the first frame is.
BinsAbsolute(lo, hi, w) == Arange(0, hi + w, w)

\* bins = np.arange(index.min(), index.max() + window_frames, window_frames)
Bins(lo, hi, w) == Arange(lo, hi + w, w)

\* The label of a value that lies in no bin (pd.cut gives NaN).
NoBin == 0 - 1

\* pd.cut(x, bins=bins, labels=bins[1:], include_lowest=True) for one value:
\* the intervals are (bins[j], bins[j+1]], the first one closed on the left
\* as well, and the label of an interval is its right edge.
Cut(x, bins) ==
    IF Len(bins) >= 2 /\ x = bins[1] THEN bins[2]
    ELSE IF \E j \in 1..(Len(bins) - 1) : bins[j] < x /\ x <= bins[j + 1]
         THEN LET j == CHOOSE j \in 1..(Len(bins) - 1) :
                           bins[j] < x /\ x <= bins[j + 1]
              IN  bins[j + 1]
         ELSE NoBin

\* pd.cut(df_switch.index, ...): the bin label of the frame at each position.
BinsColumn(f0, n, w) ==
    [p \in 1..n |-> Cut(f0 + p - 1, Bins(f0, f0 + n - 1, w))]

\* df_switch_x["current"] = df_switch["current"]: df_switch_x carries the
\* default index 0..n-1 of pd.Series(pd.cut(...)), and the assignment aligns
\* on labels: row label r receives current of frame r, NaN if there is none.
CurrentX(c, f0) ==
    [p \in 1..Len(c) |->
        LET r == p - 1
        IN  IF f0 <= r /\ r <= f0 + Len(c) - 1
            THEN (IF c[r - f0 + 1] THEN "True" ELSE "False")
            ELSE "NaN"]

\* lambda x: x.mode() over one group: the mode of the values that are not
\* NaN, carried to every row of the group; "NaN" when the group has no
\* single mode (no value at all, or as many True as False).
GroupMode(cx, S) ==
    LET m == Modes(cx, S, {"True", "False"})
    IN  IF Cardinality(m) = 1 THEN CHOOSE v \in m : TRUE ELSE "NaN"

\* df_switch_x.groupby("bins")["current"].transform(lambda x: x.mode())
TransformX(cx, bcol) ==
    [p \in 1..Len(cx) |->
        IF bcol[p] = NoBin THEN "NaN"
        ELSE GroupMode(cx, {q \in 1..Len(cx) : bcol[q] = bcol[p]})]

\* df_switch["binned"] = <transform result>: aligned on labels once more,
\* frame f receives the row labelled f of df_switch_x.
Binned(c, f0, w) ==
    LET tx == TransformX(CurrentX(c, f0), BinsColumn(f0, Len(c), w))
    IN  [p \in 1..Len(c) |->
            LET f == f0 + p - 1
            IN  IF f <= Len(c) - 1 THEN tx[f + 1] ELSE "NaN"]

InitVote ==
    /\ pc = "aggregated"
    /\ first \in 0..MaxFirst
    /\ dist_marked \in DistSeries(MaxFrames)
    /\ dist_unmarked \in [1..Len(dist_marked) -> DistValues]
    /\ window_frames \in 1..MaxWindow
    /\ current = <<>>
    /\ rolling = <<>>
    /\ binned = <<>>
    /\ frame_bin = <<>>
    /\ BoutsIdle
    /\ SwitchIdle
    /\ OthersIdle

\* df_switch = decice_switch(df_aggr, window_frames, marked, unmarked)
DeciceSwitch ==
    /\ pc = "aggregated"
    /\ LET c == Current(dist_marked, dist_unmarked)
       IN  /\ current' = c
           /\ rolling' = Rolling(c, window_frames)
           /\ frame_bin' = BinsColumn(first, Len(c), window_frames)
           /\ binned' = Binned(c, first, window_frames)
    /\ pc' = "decided"
    /\ UNCHANGED <<first, dist_marked, dist_unmarked, window_frames, boutVars, switchVars,
                 otherVars>>

NextVote == DeciceSwitch

SpecVote == InitVote /\ [][NextVote]_vars

\* ------------------------------------------------ decice_switch: claims

\* Number of frames of the series.
NFrames == Len(current)

\* The positions max(1, p - w + 1)..p of the trailing window of position p.
Trailing(p, w) == {q \in 1..NFrames : q >= p - w + 1 /\ q <= p}

TrueIn(S) == Cardinality({q \in S : current[q]})

\* C6: with window_frames = 1 the rolling vote equals the decision series
\* frame for frame, and current is the decision series itself.
C6_WindowOneIdentity ==
    (pc = "decided" /\ window_frames = 1) =>
        /\ rolling = current
        /\ current = [p \in 1..Len(dist_marked) |->
                          dist_marked[p] > dist_unmarked[p]]

C6_Witness ==
    /\ pc = "decided"
    /\ window_frames = 1
    /\ NFrames >= 3
    /\ \E p, q \in 1..NFrames : rolling[p] /\ ~rolling[q]

\* C7: rolling[i] is the majority of current over the trailing window
\* max(first, i - w + 1)..i, which is never empty: true when more than half
\* of its frames are true, false when more than half are false.
C7_RollingMajority ==
    pc = "decided" =>
        /\ Len(rolling) = NFrames
        /\ \A p \in 1..NFrames :
              LET S == Trailing(p, window_frames)
              IN  /\ S # {}
                  /\ 2 * TrueIn(S) > Cardinality(S) => rolling[p]
                  /\ 2 * TrueIn(S) < Cardinality(S) => ~rolling[p]

C7_Witness ==
    /\ pc = "decided"
    /\ window_frames = 3
    /\ NFrames >= 4
    /\ \E p \in 3..NFrames : rolling[p] /\ ~current[p]
    /\ \E p \in 3..NFrames : ~rolling[p] /\ current[p]
\* The positions whose frames pd.cut puts in the bin of position p.
BinOf(p) == {q \in 1..NFrames : frame_bin[q] = frame_bin[p]}

\* The majority of current over S, as the string the binned column holds.
MajorityIn(S) ==
    IF 2 * TrueIn(S) > Cardinality(S) THEN "True"
    ELSE IF 2 * TrueIn(S) < Cardinality(S) THEN "False"
    ELSE "NaN"

\* C8 (as claimed): the bins partition the frames into runs of exactly
\* window_frames consecutive frame numbers, only the last bin holding fewer,
\* and binned is, in every frame, the majority of current over the frame's
\* bin (where there is one), hence constant within a bin. Stated for the
\* tables of the documented input format (frame numbers from 0) with at
\* least two frames.
C8_BinsOfWindowWidth ==
    (pc = "decided" /\ first = 0 /\ NFrames >= 2) =>
        \A p \in 1..NFrames :
            /\ frame_bin[p] # NoBin
            /\ \A q \in BinOf(p), r \in 1..NFrames :
                  (p <= r /\ r <= q) => r \in BinOf(p)
            /\ \/ Cardinality(BinOf(p)) = window_frames
               \/ /\ Cardinality(BinOf(p)) < window_frames
                  /\ NFrames \in BinOf(p)
            /\ MajorityIn(BinOf(p)) # "NaN" => binned[p] = MajorityIn(BinOf(p))
            /\ \A q \in BinOf(p) : binned[q] = binned[p]

\* ceil(a / b) for a >= 0, b > 0.
CeilDiv(a, b) == (a + b - 1) \div b

\* C9 (amended): the bin edges are first, first + w, first + 2w, ...: they
\* are aligned to the first frame of the table. The first bin holds the
\* frames first..first + w, every later bin the w frames after the previous
\* edge, so the bin of frame f is fixed by f - first and w alone; its label
\* is the edge first + w * max(1, ceil((f - first) / w)). Stated for tables
\* of at least two frames.
C9_BinsAlignedToFirstFrame ==
    (pc = "decided" /\ NFrames >= 2) =>
        /\ Len(frame_bin) = NFrames
        /\ \A p \in 1..NFrames :
              frame_bin[p] =
                 LET k == CeilDiv(p - 1, window_frames)
                 IN  first + window_frames * (IF k < 1 THEN 1 ELSE k)

C9_Witness ==
    /\ pc = "decided"
    /\ first > 0
    /\ window_frames = 2
    /\ NFrames = 5
    /\ frame_bin = <<first + 2, first + 2, first + 2, first + 4, first + 4>>

\* C9 (as claimed): the bin boundaries are absolute frame numbers: two frames
\* share a bin, or not, whatever the first frame number of the table is.
C9_BinsAbsolute ==
    pc = "decided" =>
        \A f0 \in 0..first :
            LET last == first + NFrames - 1
                col0 == BinsColumn(f0, last - f0 + 1, window_frames)
            IN  \A p, q \in 1..NFrames :
                    (frame_bin[p] = frame_bin[q])
                        <=> (col0[first + p - f0] = col0[first + q - f0])

\* ---------------------------------------------------- switch_identities

\* The individuals of the table: two animals and the "single" axis.
Individuals == {"mouse1", "mouse2", "single"}

\* The coordinate fields of a bodypart.
Coords == {"x", "y"}

\* The column blocks an individual can hold in one frame.
Blocks == {[c \in Coords |-> IF c = "x" THEN 0 ELSE 1],
           [c \in Coords |-> IF c = "x" THEN 1 ELSE 0]}

\* The keypoint tables of 1..n frames.
Tables(n) == UNION {[1..m -> [Individuals -> Blocks]] : m \in 1..n}

\* The values of a switch series: a decision, or NaN where the chosen metric
\* has none.
SwitchValues == {"True", "False", "NaN"}

\* `if row["isSwitch"][0]`: Python truth of the value; NaN is true.
Truthy(v) == v # "False"

\* Mutant: temp is not a copy, it reads unmarked after it was overwritten.
f_alias(row, sw, m, u) ==
    IF Truthy(sw)
    THEN LET r1 == [row EXCEPT ![u] = row[m]]
         IN  [r1 EXCEPT ![m] = r1[u]]
    ELSE row

\* _f(row, marked, unmarked): the row with the two blocks exchanged when the
\* row's isSwitch is true.
f_row(row, sw, m, u) ==
    IF Truthy(sw)
    THEN LET temp == row[u]
             r1 == [row EXCEPT ![u] = row[m]]
         IN  [r1 EXCEPT ![m] = temp]
    ELSE row

\* switch_identities(df, is_switch, marked, unmarked): a copy of df with _f
\* applied to every row, the helper column isSwitch dropped again.
switch_identities(t, sw, m, u) ==
    [p \in 1..Len(t) |-> f_row(t[p], sw[p], m, u)]

InitSwitch ==
    /\ pc = "table"
    /\ df \in Tables(MaxRows)
    /\ is_switch \in [1..Len(df) -> SwitchValues]
    /\ marked \in {"mouse1", "mouse2"}
    /\ unmarked \in {"mouse1", "mouse2"}
    /\ df_switched = <<>>
    /\ df_switched2 = <<>>
    /\ BoutsIdle
    /\ VoteIdle
    /\ OthersIdle

\* df_switched = switch_identities(df, df_switch[metric], marked, unmarked)
SwitchIdentities ==
    /\ pc = "table"
    /\ df_switched' = switch_identities(df, is_switch, marked, unmarked)
    /\ pc' = "switched"
    /\ UNCHANGED <<df, is_switch, marked, unmarked, df_switched2,
                   boutVars, voteVars, otherVars>>

\* switch_identities applied to its own result, same series and pair.
SwitchIdentitiesAgain ==
    /\ pc = "switched"
    /\ df_switched2' = switch_identities(df_switched, is_switch, marked, unmarked)
    /\ pc' = "switched_twice"
    /\ UNCHANGED <<df, is_switch, marked, unmarked, df_switched,
                   boutVars, voteVars, otherVars>>

NextSwitch == SwitchIdentities \/ SwitchIdentitiesAgain

SpecSwitch == InitSwitch /\ [][NextSwitch]_vars

\* -------------------------------------------- switch_identities: claims

\* C10: applying switch_identities twice with the same switch series and the
\* same pair (marked, unmarked) returns a table equal to the original.
C10_SwitchTwiceIsIdentity ==
    pc = "switched_twice" => df_switched2 = df

C10_Witness ==
    /\ pc = "switched_twice"
    /\ marked # unmarked
    /\ Len(df) = 2
    /\ df_switched[1] # df[1]
    /\ df_switched[2] = df[2]
    /\ df[2][marked] # df[2][unmarked]

\* C11: switch_identities exchanges the marked and the unmarked block, every
\* coordinate of it, in the frames whose switch value is true and nowhere
\* else: frames with switch false and all other individuals (the "single"
\* axis too) are as in the input, the result has the rows and columns of the
\* input, and the input table is left as it was.
C11_SwitchOnlyMarkedPair ==
    pc \in {"switched", "switched_twice"} =>
        /\ Len(df_switched) = Len(df)
        /\ \A p \in 1..Len(df) :
              /\ DOMAIN df_switched[p] = DOMAIN df[p]
              /\ \A i \in Individuals \ {marked, unmarked} :
                    df_switched[p][i] = df[p][i]
              /\ is_switch[p] = "False" => df_switched[p] = df[p]
              /\ is_switch[p] = "True" =>
                    \A c \in Coords :
                       /\ df_switched[p][marked][c] = df[p][unmarked][c]
                       /\ df_switched[p][unmarked][c] = df[p][marked][c]

C11_Witness ==
    /\ pc = "switched"
    /\ marked = "mouse1" /\ unmarked = "mouse2"
    /\ is_switch = <<"True", "False">>
    /\ df[1]["mouse1"] # df[1]["mouse2"]
    /\ df[2]["mouse1"] # df[2]["mouse2"]
    /\ df_switched[1] # df[1]
    /\ df[1]["single"] # df[1]["mouse1"]

\* ----------------------------------------------------------- refine_ids

\* The tables refine_ids may be handed: the animals present, the bodyparts
\* every animal has, and the bodyparts of the "single" axis (absent when it
\* has none).
Headers ==
    [animals : SUBSET {"mouse1", "mouse2"},
     animal_bpts : SUBSET {"nose", "mark"},
     single_bpts : SUBSET {"nose", "mark"}]

\* The configurations: names that may or may not occur in the table.
RefineConfigs ==
    [marked : {"mouse1", "mouse3"},
     unmarked : {"mouse2", "mouse3"},
     marking : {"mark", "tag"},
     bodyparts : {{"nose"}, {"nose", "ear"}, {"ear"}}]

\* df.columns.unique("individuals")
IndividualsLevel(h) ==
    (IF h.animal_bpts = {} THEN {} ELSE h.animals)
        \cup (IF h.single_bpts = {} THEN {} ELSE {"single"})

\* df.columns.unique("bodyparts")
BodypartsLevel(h) ==
    (IF h.animals = {} THEN {} ELSE h.animal_bpts) \cup h.single_bpts

\* Mutant: the unmarked individual is not looked up.
ColumnsExistMarkedOnly(h, cfg) ==
    /\ cfg.marked \in IndividualsLevel(h)
    /\ cfg.marking \in BodypartsLevel(h)

\* The loop over (marked, unmarked, marking): each is a label of its level.
ColumnsExist(h, cfg) ==
    /\ cfg.marked \in IndividualsLevel(h)
    /\ cfg.unmarked \in IndividualsLevel(h)
    /\ cfg.marking \in BodypartsLevel(h)

\* KeypointsMixin.check_bpts_exist(df, bpts): every configured bodypart is a
\* label of the bodyparts level.
BptsExist(h, cfg) == cfg.bodyparts \subseteq BodypartsLevel(h)

\* aggregate_df can read its columns: the marking under "single", and the
\* configured bodyparts of both individuals.
AggregateReadable(h, cfg) ==
    /\ cfg.marking \in h.single_bpts
    /\ \A i \in {cfg.marked, cfg.unmarked} :
          \/ i \in h.animals /\ cfg.bodyparts \subseteq h.animal_bpts
          \/ i = "single" /\ cfg.bodyparts \subseteq h.single_bpts

InitRefine ==
    /\ pc = "refine_start"
    /\ dlc_header \in Headers
    /\ refine_cfg \in RefineConfigs
    /\ ids_switched = FALSE
    /\ out_written = FALSE
    /\ IdleExceptRefine

RefineUnchanged == UNCHANGED <<dlc_header, refine_cfg, exceptRefine>>

\* The check of marked, unmarked and marking; ValueError when one is missing.
RefineCheckColumns ==
    /\ pc = "refine_start"
    /\ pc' = IF ColumnsExist(dlc_header, refine_cfg)
             THEN "refine_cols_ok" ELSE "refine_error"
    /\ UNCHANGED <<ids_switched, out_written>>
    /\ RefineUnchanged

\* KeypointsMixin.check_bpts_exist(df, bpts)
RefineCheckBpts ==
    /\ pc = "refine_cols_ok"
    /\ pc' = IF BptsExist(dlc_header, refine_cfg)
             THEN "refine_bpts_ok" ELSE "refine_error"
    /\ UNCHANGED <<ids_switched, out_written>>
    /\ RefineUnchanged

\* df_aggr = aggregate_df(...); df_switch = decice_switch(...): a KeyError
\* when a column they read is not in the table.
RefineAggregate ==
    /\ pc = "refine_bpts_ok"
    /\ pc' = IF AggregateReadable(dlc_header, refine_cfg)
             THEN "refine_decided" ELSE "refine_error"
    /\ UNCHANGED <<ids_switched, out_written>>
    /\ RefineUnchanged

\* df_switched = switch_identities(df, df_switch[metric], marked, unmarked)
RefineSwitch ==
    /\ pc = "refine_decided"
    /\ ids_switched' = TRUE
    /\ pc' = "refine_switched"
    /\ UNCHANGED out_written
    /\ RefineUnchanged

\* DFIOMixin.write_feather(df_switched, out_fp)
RefineWrite ==
    /\ pc = "refine_switched"
    /\ out_written' = TRUE
    /\ pc' = "refine_written"
    /\ UNCHANGED ids_switched
    /\ RefineUnchanged

NextRefine ==
    \/ RefineCheckColumns
    \/ RefineCheckBpts
    \/ RefineAggregate
    \/ RefineSwitch
    \/ RefineWrite

SpecRefine == InitRefine /\ [][NextRefine]_vars

\* A configured name that the table does not have.
MissingName ==
    \/ refine_cfg.marked \notin IndividualsLevel(dlc_header)
    \/ refine_cfg.unmarked \notin IndividualsLevel(dlc_header)
    \/ refine_cfg.marking \notin BodypartsLevel(dlc_header)
    \/ \E b \in refine_cfg.bodyparts : b \notin BodypartsLevel(dlc_header)

\* C12: when marked, unmarked, the marking or a configured bodypart is not
\* in the table, refine_ids ends in an error raised by its checks, before
\* the distances are computed, before any identity is switched and before
\* the output is written: such a run never produces an output file.
C12_FailsBeforeSwitchAndWrite ==
    /\ pc = "refine_cols_ok" =>
          /\ refine_cfg.marked \in IndividualsLevel(dlc_header)
          /\ refine_cfg.unmarked \in IndividualsLevel(dlc_header)
          /\ refine_cfg.marking \in BodypartsLevel(dlc_header)
    /\ (MissingName /\ pc \notin {"refine_start", "refine_cols_ok"})
          => pc = "refine_error"
    /\ (MissingName \/ pc = "refine_error")
          => (~ids_switched /\ ~out_written)

C12_Witness ==
    /\ pc = "refine_error"
    /\ refine_cfg.marked \in IndividualsLevel(dlc_header)
    /\ refine_cfg.unmarked \notin IndividualsLevel(dlc_header)
    /\ refine_cfg.marking \in BodypartsLevel(dlc_header)
    /\ ~out_written

\* ------------------------------------------------------------- freezing

MaxFreezeFrames == 6

FreezeBpts == {"nose", "tail"}

\* Smoothed displacements (px) and thresholds (px) on either side of them.
DistPx == {2, 6}
ThreshPx == {5}

\* temp_df: the first frame has no displacement (diff() gives NaN, and the
\* rolling mean of no value is NaN), the others have one per bodypart.
\* NaNPx stands for NaN; displacements are never negative.
NaNPx == 0 - 1

TempTables(n) ==
    {<<>>} \cup
    UNION {{<<[b \in FreezeBpts |-> NaNPx]>> \o t :
               t \in [1..m -> [FreezeBpts -> DistPx]]} : m \in 0..(n - 1)}

\* np.all(x < thresh_px) as int8; a comparison with NaN is false.
AllBelow(row, thresh) ==
    IF \A b \in DOMAIN row : row[b] # NaNPx /\ row[b] < thresh THEN 1 ELSE 0

\* analysis_df[(indiv, "freezing")] before the filter.
FrozenRaw(t, thresh) == [p \in 1..Len(t) |-> AllBelow(t[p], thresh)]

\* Mutant: a bout as long as the window is dropped as well.
RECURSIVE FilterRowsLe(_, _, _, _)
FilterRowsLe(v, rows, w, r) ==
    IF r > Len(rows) THEN v
    ELSE FilterRowsLe(IF rows[r].dur <= w
                      THEN SetLoc(v, rows[r].start, rows[r].stop, 0)
                      ELSE v,
                      rows, w, r + 1)

\* The loop over freezingbouts_df: a bout with dur < window_frames is reset.
RECURSIVE FilterRows(_, _, _, _)
FilterRows(v, rows, w, r) ==
    IF r > Len(rows) THEN v
    ELSE FilterRows(IF rows[r].dur < w
                    THEN SetLoc(v, rows[r].start, rows[r].stop, 0)
                    ELSE v,
                    rows, w, r + 1)

\* The bout filter of freezing for one individual.
filter_freezing(v, w) == FilterRows(v, vect_2_bouts(EqSeries(v, 1)), w, 1)

InitFreeze ==
    /\ pc = "fz_start"
    /\ temp_df \in TempTables(MaxFreezeFrames)
    /\ thresh_px \in ThreshPx
    /\ fz_window_frames \in 0..MaxWindow
    /\ fz_raw = <<>>
    /\ fz = <<>>
    /\ IdleExceptFreeze

\* analysis_df[(indiv, f_name)] = temp_df.apply(np.all(x < thresh_px))
FreezeFlag ==
    /\ pc = "fz_start"
    /\ fz_raw' = FrozenRaw(temp_df, thresh_px)
    /\ fz' = fz_raw'
    /\ pc' = "fz_flagged"
    /\ UNCHANGED <<temp_df, thresh_px, fz_window_frames, exceptFreeze>>

\* vect_2_bouts of the flag, then the reset of the short bouts.
FreezeFilter ==
    /\ pc = "fz_flagged"
    /\ fz' = filter_freezing(fz, fz_window_frames)
    /\ pc' = "fz_done"
    /\ UNCHANGED <<temp_df, thresh_px, fz_window_frames, fz_raw, exceptFreeze>>

NextFreeze == FreezeFlag \/ FreezeFilter

SpecFreeze == InitFreeze /\ [][NextFreeze]_vars

\* a..b is a maximal run of 1 in v.
IsOneRun(v, a, b) ==
    /\ a \in 1..Len(v) /\ b \in a..Len(v)
    /\ \A i \in a..b : v[i] = 1
    /\ (a = 1 \/ v[a - 1] = 0)
    /\ (b = Len(v) \/ v[b + 1] = 0)

OneRuns(v) == {ab \in (1..Len(v)) \X (1..Len(v)) : IsOneRun(v, ab[1], ab[2])}

MaxSpeedFrames == 3

jitter_frames == 3

SpeedBpts == {"nose", "tail"}
SpeedPx == {0, 20}
FpsValues == {30}
PxPerMmValues == {1, 2}

\* The keypoint tables of one individual: n frames, x and y per bodypart.
SpeedTables(n) ==
    UNION {[1..m -> [SpeedBpts -> [x : SpeedPx, y : SpeedPx]]] : m \in 0..n}

\* The sum of f[e] over the e in S.
RECURSIVE SumOver(_, _)
SumOver(S, f) ==
    IF S = {} THEN 0
    ELSE LET e == CHOOSE e \in S : TRUE IN f[e] + SumOver(S \ {e}, f)

\* Mutant: no jitter window, the frame itself.
CentredWindowNone(n, p, w) == {p}

\* rolling(window = w, center = True, min_periods = 1): the positions of the
\* window centred on p that lie in the table (w odd).
CentredWindow(n, p, w) ==
    {q \in 1..n : p - ((w - 1) \div 2) <= q /\ q <= p + ((w - 1) \div 2)}

\* Least common multiple of the window sizes 1..w, by which the smoothed
\* means are scaled to stay integers.
RECURSIVE Lcm1(_, _)
Lcm1(w, m) ==
    IF \A c \in 1..w : m % c = 0 THEN m ELSE Lcm1(w, m + 1)

MeanScale == Lcm1(jitter_frames, 1) * Cardinality(SpeedBpts)

\* smoothed_xy_df.loc[:, idx[indiv, bpts, c]].mean(axis=1) at position p,
\* times MeanScale: the mean over the bodyparts of the window means.
SmoothedCentroid(t, p, c) ==
    LET W == CentredWindow(Len(t), p, jitter_frames)
        ws == Lcm1(jitter_frames, 1) \div Cardinality(W)
        Col == [b \in SpeedBpts |-> ws * SumOver(W, [q \in W |-> t[q][b][c]])]
    IN  SumOver(SpeedBpts, Col)

\* A speed is held exactly as the fraction num / den of its square;
\* den = 0 stands for NaN.
NaNSpeed == [num |-> 0, den |-> 0]

\* (delta / px_per_mm) * fps at position p; diff() has no value at the
\* first frame.
SpeedAt(t, p, fps, ppm) ==
    IF p = 1 THEN NaNSpeed
    ELSE LET dx == SmoothedCentroid(t, p, "x") - SmoothedCentroid(t, p - 1, "x")
             dy == SmoothedCentroid(t, p, "y") - SmoothedCentroid(t, p - 1, "y")
         IN  [num |-> (dx * dx + dy * dy) * fps * fps,
              den |-> MeanScale * MeanScale * ppm * ppm]

SpeedMMperSec(t, fps, ppm) == [p \in 1..Len(t) |-> SpeedAt(t, p, fps, ppm)]

\* bfill(): a NaN takes the next value that is not NaN, if there is one.
Bfill(col) ==
    [p \in 1..Len(col) |->
        IF \E q \in p..Len(col) : col[q].den # 0
        THEN col[CHOOSE q \in p..Len(col) :
                    /\ col[q].den # 0
                    /\ \A r \in p..(q - 1) : col[r].den = 0]
        ELSE col[p]]

InitSpeed ==
    /\ pc = "sp_start"
    /\ sp_df \in SpeedTables(MaxSpeedFrames)
    /\ sp_fps \in FpsValues
    /\ sp_px_per_mm \in PxPerMmValues
    /\ sp_speed = <<>>
    /\ sp_out = <<>>
    /\ IdleExceptSpeed

\* The loop body of speed for the individual: jitter smoothing, centroid
\* displacement, conversion to mm per second.
SpeedCompute ==
    /\ pc = "sp_start"
    /\ sp_speed' = SpeedMMperSec(sp_df, sp_fps, sp_px_per_mm)
    /\ sp_out' = sp_speed'
    /\ pc' = "sp_computed"
    /\ UNCHANGED <<sp_df, sp_fps, sp_px_per_mm, exceptSpeed>>

\* analysis_df = analysis_df.bfill()
SpeedBackfill ==
    /\ pc = "sp_computed"
    /\ sp_out' = Bfill(sp_out)
    /\ pc' = "sp_done"
    /\ UNCHANGED <<sp_df, sp_fps, sp_px_per_mm, sp_speed, exceptSpeed>>

NextSpeed == SpeedCompute \/ SpeedBackfill

SpecSpeed == InitSpeed /\ [][NextSpeed]_vars

\* The speed s (a fraction of squares) is the number v >= 0.
SpeedIs(s, v) == s.den # 0 /\ s.num = v * v * s.den

\* The table of the example: two frames, every bodypart at (0, 0) and then
\* at (20, 0), 30 frames per second, 2 px per mm.
SpeedExample ==
    /\ Len(sp_df) = 2
    /\ \A b \in SpeedBpts : sp_df[1][b] = [x |-> 0, y |-> 0]
    /\ \A b \in SpeedBpts : sp_df[2][b] = [x |-> 20, y |-> 0]
    /\ sp_fps = 30
    /\ sp_px_per_mm = 2

\* C14 (as stated): on the example table speed reports 300 mm per second at
\* frame 1, and frame 0 is back-filled with that value.
C14_SpeedExample300 ==
    (pc = "sp_done" /\ SpeedExample) =>
        /\ SpeedIs(sp_out[2], 300)
        /\ sp_out[1] = sp_out[2]

\* C14 (amended): on the example table the three-frame centred mean gives
\* both frames the same smoothed centroid, so speed reports 0 mm per second
\* at frame 1, and frame 0 is back-filled with frame 1's value (0).
C14_SpeedExampleSmoothed ==
    (pc = "sp_done" /\ SpeedExample) =>
        /\ SpeedIs(sp_out[2], 0)
        /\ sp_speed[1] = NaNSpeed
        /\ sp_out[1] = sp_out[2]

C14_Witness ==
    /\ pc = "sp_done"
    /\ SpeedExample
    /\ sp_speed[1].den = 0
    /\ sp_out[1].den # 0

\* ------------------------------------------------------ social_distance

MaxSocialFrames == 2

\* indivs[0] and indivs[1]
indiv_a == "mouse1"
indiv_b == "mouse2"

SocialBpts == {"nose", "tail"}
SocialPx == {0, 20}

\* The keypoint tables: n frames, x and y per bodypart of both individuals.
SocialTables(n) ==
    UNION {[1..m -> [{indiv_a, indiv_b} -> [SocialBpts -> [x : SocialPx, y : SocialPx]]]]
              : m \in 0..n}

\* (dlc_df.loc[:, cols] - dlc_df.loc[:, cols]).mean(axis=1) of one frame,
\* times the number of bodyparts; cols are the columns (indiv, bpts, c).
SelfDiffMean(row, indiv, c) ==
    SumOver(SocialBpts, [b \in SocialBpts |-> row[indiv][b][c] - row[indiv][b][c]])

\* dist / px_per_mm of one frame, as the fraction num / den of its square:
\* dist_x is taken over the x columns of indiv_b, dist_y over the y columns
\* of indiv_a.
DistMMAt(row, ppm) ==
    LET dist_x == SelfDiffMean(row, indiv_b, "x")
        dist_y == SelfDiffMean(row, indiv_a, "y")
        k == Cardinality(SocialBpts)
    IN  [num |-> dist_x * dist_x + dist_y * dist_y,
         den |-> k * k * ppm * ppm]

DistMM(t, ppm) == [p \in 1..Len(t) |-> DistMMAt(t[p], ppm)]

InitSocial ==
    /\ pc = "sd_start"
    /\ sd_df \in SocialTables(MaxSocialFrames)
    /\ sd_px_per_mm \in PxPerMmValues
    /\ sd_dist = <<>>
    /\ IdleExceptSocial

\* analysis_df[(f"{indiv_a}_{indiv_b}", "DistMM")] = dist / px_per_mm
SocialDistance ==
    /\ pc = "sd_start"
    /\ sd_dist' = DistMM(sd_df, sd_px_per_mm)
    /\ pc' = "sd_done"
    /\ UNCHANGED <<sd_df, sd_px_per_mm, exceptSocial>>

NextSocial == SocialDistance

SpecSocial == InitSocial /\ [][NextSocial]_vars

\* Sum over the bodyparts of coordinate c of an individual: its centroid
\* times the number of bodyparts.
CentroidSum(row, indiv, c) ==
    SumOver(SocialBpts, [b \in SocialBpts |-> row[indiv][b][c]])

\* C15: DistMM of a frame is the Euclidean distance between the two
\* individuals' bodypart-averaged centroids divided by px_per_mm (compared
\* as squares over the denominator of sd_dist), so it is greater than 0
\* where the centroids differ.
C15_DistIsCentroidDistance ==
    pc = "sd_done" =>
        \A p \in 1..Len(sd_df) :
            LET dx == CentroidSum(sd_df[p], indiv_a, "x") - CentroidSum(sd_df[p], indiv_b, "x")
                dy == CentroidSum(sd_df[p], indiv_a, "y") - CentroidSum(sd_df[p], indiv_b, "y")
            IN  /\ sd_dist[p].num = dx * dx + dy * dy
                /\ (dx # 0 \/ dy # 0) => sd_dist[p].num > 0

\* ---------------------------------------------------------- start_frame

MaxStartFrames == 4

StartBpts == {"nose", "tail"}

\* Likelihoods and cutoffs, in percent.
LhoodValues == {10, 90}
PcutoffValues == {50, 95}

LhoodTables(n) == UNION {[1..m -> [StartBpts -> LhoodValues]] : m \in 0..n}

\* The k-th smallest entry of the sequence s.
Kth(s, k) ==
    CHOOSE v \in {s[i] : i \in DOMAIN s} :
        /\ Cardinality({i \in DOMAIN s : s[i] < v}) < k
        /\ k <= Cardinality({i \in DOMAIN s : s[i] <= v})

\* Twice np.nanmedian of the entries of s (none of them NaN, s not empty).
Median2(s) ==
    IF Len(s) % 2 = 1
    THEN 2 * Kth(s, (Len(s) + 1) \div 2)
    ELSE Kth(s, Len(s) \div 2) + Kth(s, Len(s) \div 2 + 1)

\* The entries of the function f over the set S, as a sequence.
RECURSIVE AsSeq(_, _)
AsSeq(S, f) ==
    IF S = {} THEN <<>>
    ELSE LET e == CHOOSE e \in S : TRUE IN <<f[e]>> \o AsSeq(S \ {e}, f)

\* df_lhoods["current"], times 2: the median of the row's likelihoods.
LhoodCurrent2(t) == [p \in 1..Len(t) |-> Median2(AsSeq(StartBpts, t[p]))]

\* Mutant: a window cut short at the start of the table still counts.
FullWindowAny(p, w) == p >= 1

\* rolling(window_frames), min_periods = window_frames: the window that ends
\* at position p has a value only when it lies in the table.
FullWindow(p, w) == p >= w

\* df_lhoods["rolling"] > pcutoff at position p (rolling is held times 4; NaN
\* compares false).
RollingAbove(t, p, w, cutoff) ==
    /\ FullWindow(p, w)
    /\ LET lo == IF p - w + 1 < 1 THEN 1 ELSE p - w + 1
       IN  Median2(SubSeq(LhoodCurrent2(t), lo, p)) > 4 * cutoff

\* df_lhoods[df_lhoods["rolling"] > pcutoff].index: the frame numbers (from 0).
Detections(t, w, cutoff) ==
    {p - 1 : p \in {q \in 1..Len(t) : RollingAbove(t, q, w, cutoff)}}

\* .index[0] - (window_frames - 1); IndexError when there is no detection.
FirstDetection(t, w, cutoff) ==
    IF Detections(t, w, cutoff) = {} THEN "IndexError"
    ELSE "frame"

Min(S) == CHOOSE x \in S : \A y \in S : x <= y

WarningText == "WARNING: The subject was not detected in any frames"

InitStart ==
    /\ pc = "st_start"
    /\ st_lhoods \in LhoodTables(MaxStartFrames)
    /\ st_pcutoff \in PcutoffValues
    /\ st_window_frames \in 1..MaxWindow
    /\ st_outcome = ""
    /\ st_start_frame = 0 - 1    \* not yet stored
    /\ IdleExceptStart

\* start_frame: the try block, its except branch, and the write of the
\* configs.
StartFrame ==
    /\ pc = "st_start"
    /\ IF FirstDetection(st_lhoods, st_window_frames, st_pcutoff) = "IndexError"
       THEN /\ st_outcome' = WarningText
            /\ st_start_frame' = 0
       ELSE /\ st_outcome' = st_outcome
            /\ st_start_frame' =
                  Min(Detections(st_lhoods, st_window_frames, st_pcutoff))
                      - (st_window_frames - 1)
    /\ pc' = "st_done"
    /\ UNCHANGED <<st_lhoods, st_pcutoff, st_window_frames, exceptStart>>

NextStart == StartFrame

SpecStart == InitStart /\ [][NextStart]_vars

\* Some full window of w frames has a median likelihood above the cutoff.
SomeWindowAbove ==
    \E p \in st_window_frames..Len(st_lhoods) :
        Median2(SubSeq(LhoodCurrent2(st_lhoods), p - st_window_frames + 1, p))
            > 4 * st_pcutoff

\* C16: start_frame always returns. When no window's median likelihood
\* exceeds pcutoff it stores start_frame = 0 and the outcome holds the
\* warning; when some window does, the outcome holds no warning (and the
\* stored frame is a frame of the table).
C16_NoDetectionWarns ==
    pc = "st_done" =>
        /\ ~SomeWindowAbove => (st_start_frame = 0 /\ st_outcome = WarningText)
        /\ SomeWindowAbove =>
              /\ st_outcome = ""
              /\ st_start_frame \in 0..(Len(st_lhoods) - 1)

C16_Witness ==
    /\ pc = "st_done"
    /\ Len(st_lhoods) >= 2
    /\ st_window_frames = 2
    /\ ~SomeWindowAbove
    /\ \E p \in 1..Len(st_lhoods) : Median2(<<LhoodCurrent2(st_lhoods)[p]>>) > 4 * st_pcutoff
    /\ st_outcome = WarningText

\* ---------------------------------------------------- _process_scaffold

\* Experiment names exp1, exp2, exp10, held as their numbers: the natural
\* sort order of the names is the order of the numbers.
ExpNames == {1, 2, 10}

NprocsValues == {1, 2}

\* The dict a method returns for experiment e; a deterministic function of e.
MethodRow(e) == [experiment |-> e, outcome |-> <<"done", e>>]

\* What a worker (or the loop) holds after running the method on e.
MethodResult(e, fails) ==
    IF e \in fails THEN [experiment |-> e, outcome |-> "Exception"]
    ELSE MethodRow(e)

\* get_experiments(): natsorted by name.
RECURSIVE NatSorted(_)
NatSorted(S) ==
    IF S = {} THEN <<>> ELSE <<Min(S)>> \o NatSorted(S \ {Min(S)})

\* The decimal digits of a number below 100, i.e. the name after "exp".
Digits(e) == IF e < 10 THEN <<e>> ELSE <<e \div 10, e % 10>>

\* Plain string order of the names.
LexLess(a, b) ==
    LET da == Digits(a)
        db == Digits(b)
    IN  \/ da[1] < db[1]
        \/ da[1] = db[1] /\ Len(da) < Len(db)
        \/ da[1] = db[1] /\ Len(da) = Len(db) /\ Len(da) = 2 /\ da[2] < db[2]

RECURSIVE LexSortedSet(_)
LexSortedSet(S) ==
    IF S = {} THEN <<>>
    ELSE LET m == CHOOSE x \in S : \A y \in S \ {x} : LexLess(x, y)
         IN  <<m>> \o LexSortedSet(S \ {m})

RowOf(rows, e) == rows[CHOOSE i \in DOMAIN rows : rows[i].experiment = e]

\* Mutant: the index is sorted as plain strings.
SortIndexLex(rows) ==
    LET names == LexSortedSet({rows[i].experiment : i \in DOMAIN rows})
    IN  [i \in DOMAIN names |-> RowOf(rows, names[i])]

\* pd.DataFrame(dd_ls).set_index("experiment").sort_index(key=natsort_keygen())
SortIndex(rows) ==
    LET names == NatSorted({rows[i].experiment : i \in DOMAIN rows})
    IN  [i \in DOMAIN names |-> RowOf(rows, names[i])]

\* f with f[e] set to v.
With(f, e, v) == [x \in DOMAIN f \cup {e} |-> IF x = e THEN v ELSE f[x]]

InitBatch ==
    /\ pc = "bt_start"
    /\ bt_exps \in SUBSET ExpNames
    /\ bt_fails \in SUBSET bt_exps
    /\ bt_nprocs \in NprocsValues
    /\ bt_pending = <<>>
    /\ bt_running = {}
    /\ bt_results = <<>>
    /\ bt_finish_order = <<>>
    /\ bt_dd_ls = <<>>
    /\ bt_diag = <<>>
    /\ IdleExceptBatch

BatchInputs == <<bt_exps, bt_fails, bt_nprocs>>

\* The choice of the scaffold function and its call: both iterate over
\* get_experiments().
BatchStart ==
    /\ pc = "bt_start"
    /\ pc' = IF bt_nprocs = 1 THEN "bt_sp" ELSE "bt_mp"
    /\ bt_pending' = NatSorted(bt_exps)
    /\ UNCHANGED <<BatchInputs, bt_running, bt_results, bt_finish_order,
                   bt_dd_ls, bt_diag, exceptBatch>>

\* _process_scaffold_sp: one turn of the list comprehension. An exception of
\* the method leaves the comprehension and _process_scaffold.
SpStep ==
    /\ pc = "bt_sp"
    /\ bt_pending # <<>>
    /\ LET e == Head(bt_pending)
       IN  /\ bt_results' = With(bt_results, e, MethodResult(e, bt_fails))
           /\ bt_finish_order' = Append(bt_finish_order, e)
           /\ bt_pending' = Tail(bt_pending)
           /\ IF e \in bt_fails
              THEN pc' = "bt_raised" /\ UNCHANGED bt_dd_ls
              ELSE /\ bt_dd_ls' = Append(bt_dd_ls, MethodRow(e))
                   /\ pc' = IF Tail(bt_pending) = <<>> THEN "bt_collected" ELSE "bt_sp"
    /\ UNCHANGED <<BatchInputs, bt_running, bt_diag, exceptBatch>>

\* _process_scaffold_sp with no experiment: the empty list.
SpEmpty ==
    /\ pc = "bt_sp"
    /\ bt_pending = <<>>
    /\ pc' = "bt_collected"
    /\ UNCHANGED <<BatchInputs, bt_pending, bt_running, bt_results,
                   bt_finish_order, bt_dd_ls, bt_diag, exceptBatch>>

\* A free pool worker takes the next task of p.map.
MpTake ==
    /\ pc = "bt_mp"
    /\ bt_pending # <<>>
    /\ Cardinality(bt_running) < bt_nprocs
    /\ bt_running' = bt_running \cup {Head(bt_pending)}
    /\ bt_pending' = Tail(bt_pending)
    /\ UNCHANGED <<pc, BatchInputs, bt_results, bt_finish_order, bt_dd_ls,
                   bt_diag, exceptBatch>>

\* _process_scaffold_mp_worker returns (or raises) for one running task.
MpFinish ==
    /\ pc = "bt_mp"
    /\ \E e \in bt_running :
          /\ bt_running' = bt_running \ {e}
          /\ bt_results' = With(bt_results, e, MethodResult(e, bt_fails))
          /\ bt_finish_order' = Append(bt_finish_order, e)
    /\ UNCHANGED <<pc, BatchInputs, bt_pending, bt_dd_ls, bt_diag, exceptBatch>>

\* p.map returns the results in task order once every task is done, or
\* raises the exception of a task.
MpJoin ==
    /\ pc = "bt_mp"
    /\ bt_pending = <<>>
    /\ bt_running = {}
    /\ IF bt_fails # {}
       THEN pc' = "bt_raised" /\ UNCHANGED bt_dd_ls
       ELSE /\ bt_dd_ls' = [i \in DOMAIN NatSorted(bt_exps) |->
                               bt_results[NatSorted(bt_exps)[i]]]
            /\ pc' = "bt_collected"
    /\ UNCHANGED <<BatchInputs, bt_pending, bt_running, bt_results,
                   bt_finish_order, bt_diag, exceptBatch>>

\* The diagnostics table and save_diagnostics; set_index("experiment") of a
\* table without rows (and so without columns) raises KeyError.
BatchSave ==
    /\ pc = "bt_collected"
    /\ IF bt_dd_ls = <<>>
       THEN pc' = "bt_raised" /\ UNCHANGED bt_diag
       ELSE bt_diag' = SortIndex(bt_dd_ls) /\ pc' = "bt_saved"
    /\ UNCHANGED <<BatchInputs, bt_pending, bt_running, bt_results,
                   bt_finish_order, bt_dd_ls, exceptBatch>>

NextBatch ==
    \/ BatchStart
    \/ SpStep
    \/ SpEmpty
    \/ MpTake
    \/ MpFinish
    \/ MpJoin
    \/ BatchSave

SpecBatch == InitBatch /\ [][NextBatch]_vars

\* C17: when the method fails on an experiment, the other experiments are
\* still processed and recorded in the saved diagnostics: at the end of the
\* call every experiment the method does not fail on has been run and has
\* its row in the diagnostics table.
C17_FailureDoesNotStopOthers ==
    (pc \in {"bt_saved", "bt_raised"} /\ bt_fails # {}) =>
        \A e \in bt_exps \ bt_fails :
            /\ e \in DOMAIN bt_results
            /\ \E i \in DOMAIN bt_diag : bt_diag[i] = MethodRow(e)

\* C18: the saved diagnostics table has exactly one row per experiment, in
\* natural-sorted experiment order, each row the method's result for that
\* experiment; it is a function of the experiments alone, the same for one
\* process and for the pool, whatever order the workers finish in.
C18_DiagnosticsDeterministic ==
    pc = "bt_saved" =>
        /\ Len(bt_diag) = Cardinality(bt_exps)
        /\ \A i \in DOMAIN bt_diag :
              /\ bt_diag[i].experiment \in bt_exps
              /\ bt_diag[i] = MethodRow(bt_diag[i].experiment)
              /\ \A j \in DOMAIN bt_diag :
                    i < j => bt_diag[i].experiment < bt_diag[j].experiment

C18_Witness ==
    /\ pc = "bt_saved"
    /\ bt_nprocs = 2
    /\ bt_exps = ExpNames
    /\ bt_finish_order = <<2, 1, 10>>

\* ------------------------------------------- Project.import_experiment

MaxCalls == 4

ProjectNames == {"exp1", "exp2", "exp3"}

\* Experiment(name, self.root_dir): the object, told apart by the number of
\* its construction. The constructor raises ValueError for a name without
\* files (import_experiments catches it: "do not add invalid files").
NewExperiment(name, made) == [name |-> name, id |-> made + 1]

\* Mutant: the experiment is stored whether or not the name is present.
import_experiment_overwrite(exps, name, files, made) ==
    IF name \in files
    THEN [experiments |-> With(exps, name, NewExperiment(name, made)),
          result |-> "True", made |-> made + 1]
    ELSE [experiments |-> exps, result |-> "ValueError", made |-> made]

\* import_experiment(name): the dict after the call, what the call gave
\* ("True", "False", or the ValueError of the constructor), and the number
\* of objects constructed.
import_experiment(exps, name, files, made) ==
    IF name \notin DOMAIN exps
    THEN IF name \in files
         THEN [experiments |-> With(exps, name, NewExperiment(name, made)),
               result |-> "True", made |-> made + 1]
         ELSE [experiments |-> exps, result |-> "ValueError", made |-> made]
    ELSE [experiments |-> exps, result |-> "False", made |-> made]

\* get_experiment(name): the stored object, or ValueError.
get_experiment(exps, name) ==
    IF name \in DOMAIN exps
    THEN [result |-> "Experiment", obj |-> exps[name].id]
    ELSE [result |-> "ValueError", obj |-> 0]

\* Project.__init__: no experiments.
InitProject ==
    /\ pc = "pj_made"
    /\ pj_files \in SUBSET ProjectNames
    /\ pj_experiments = <<>>
    /\ pj_before = <<>>
    /\ pj_made = 0
    /\ pj_calls = 0
    /\ pj_last = [name |-> "", result |-> "", obj |-> 0]
    /\ IdleExceptProject

ProjectReady == pc \in {"pj_made", "pj_imported", "pj_got"}

ImportExperiment ==
    /\ ProjectReady
    /\ pj_calls < MaxCalls
    /\ \E name \in ProjectNames :
          LET r == import_experiment(pj_experiments, name, pj_files, pj_made)
          IN  /\ pj_experiments' = r.experiments
              /\ pj_made' = r.made
              /\ pj_last' = [name |-> name, result |-> r.result, obj |-> 0]
    /\ pj_before' = pj_experiments
    /\ pj_calls' = pj_calls + 1
    /\ pc' = "pj_imported"
    /\ UNCHANGED <<pj_files, exceptProject>>

GetExperiment ==
    /\ ProjectReady
    /\ pj_calls < MaxCalls
    /\ \E name \in ProjectNames :
          LET r == get_experiment(pj_experiments, name)
          IN  pj_last' = [name |-> name, result |-> r.result, obj |-> r.obj]
    /\ pj_before' = pj_experiments
    /\ pj_calls' = pj_calls + 1
    /\ pc' = "pj_got"
    /\ UNCHANGED <<pj_files, pj_experiments, pj_made, exceptProject>>

NextProject == ImportExperiment \/ GetExperiment

SpecProject == InitProject /\ [][NextProject]_vars

\* One Experiment per name: each entry is the object made for its key, and
\* no object is stored under two names.
OnePerName ==
    /\ \A n \in DOMAIN pj_experiments : pj_experiments[n].name = n
    /\ \A n, m \in DOMAIN pj_experiments :
          pj_experiments[n].id = pj_experiments[m].id => n = m

\* get_experiment of a name that is not stored raises ValueError, and of a
\* stored name gives the stored object.
GetContract ==
    pc = "pj_got" =>
        /\ pj_experiments = pj_before
        /\ pj_last.name \notin DOMAIN pj_experiments => pj_last.result = "ValueError"
        /\ pj_last.name \in DOMAIN pj_experiments =>
              /\ pj_last.result = "Experiment"
              /\ pj_last.obj = pj_experiments[pj_last.name].id

\* C19 (as stated): experiments holds one Experiment per imported name; an
\* import gives True exactly when the name was not yet present; a repeated
\* import gives False and changes nothing; get_experiment of a name never
\* imported raises ValueError.
C19_ImportTrueIffAbsent ==
    /\ OnePerName
    /\ GetContract
    /\ pc = "pj_imported" =>
          /\ (pj_last.result = "True") <=> (pj_last.name \notin DOMAIN pj_before)
          /\ pj_last.name \in DOMAIN pj_before =>
                (pj_last.result = "False" /\ pj_experiments = pj_before)

\* C19 (amended): an import that returns gives True exactly when the name
\* was not yet present, and then stores one new Experiment under it and
\* leaves the other entries as they were; a repeated import gives False and
\* changes nothing; an import of an absent name may instead raise the
\* constructor's ValueError, and then changes nothing. experiments holds one
\* Experiment per stored name, and get_experiment of a name that is not
\* stored raises ValueError.
C19_ImportContract ==
    /\ OnePerName
    /\ GetContract
    /\ pc = "pj_imported" =>
          /\ pj_last.result \in {"True", "False", "ValueError"}
          /\ (pj_last.result = "False") <=> (pj_last.name \in DOMAIN pj_before)
          /\ pj_last.result # "True" => pj_experiments = pj_before
          /\ pj_last.result = "ValueError" => pj_last.name \notin pj_files
          /\ pj_last.result = "True" =>
                /\ DOMAIN pj_experiments = DOMAIN pj_before \cup {pj_last.name}
                /\ \A n \in DOMAIN pj_before : pj_experiments[n] = pj_before[n]

C19_Witness ==
    /\ pc = "pj_imported"
    /\ pj_last.result = "False"
    /\ Cardinality(DOMAIN pj_experiments) = 2
    /\ "exp3" \notin pj_files
    /\ pj_calls = MaxCalls

\* ----------------------------------------------------- ties of the vote

\* As many true as false frames of current in S.
Tied(S) == S # {} /\ 2 * TrueIn(S) = Cardinality(S)

\* C20: a rolling window or a bin with as many true as false frames still
\* gives each of its frames exactly one boolean, and the same one for every
\* tie, false: rolling is false at a frame whose trailing window is tied,
\* and binned is false at a frame whose bin is tied. Stated for the tables
\* of the documented input format (frame numbers from 0) with at least two
\* frames.
C20_TiesGiveFalse ==
    (pc = "decided" /\ first = 0 /\ NFrames >= 2) =>
        \A p \in 1..NFrames :
            /\ Tied(Trailing(p, window_frames)) => rolling[p] = FALSE
            /\ (frame_bin[p] # NoBin /\ Tied(BinOf(p))) => binned[p] = "False"

\* ------------------------------------- aggregate_df and the current vote

MaxAggrFrames == 1

ag_marked == "mouse1"
ag_unmarked == "mouse2"
ag_marking == "mark"

AggrBpts == {"nose", "tail"}

\* A point of the table; NaNPx in both fields when the point is missing.
NaNPoint == [x |-> NaNPx, y |-> NaNPx]
AggrPoints == {[x |-> 0, y |-> 0], [x |-> 4, y |-> 0], [x |-> 0, y |-> 4], NaNPoint}
MarkPoints == {[x |-> 0, y |-> 0], NaNPoint}

\* One frame: the configured bodyparts of the two individuals and the
\* marking under "single".
AggrRows ==
    {[i \in {ag_marked, ag_unmarked, "single"} |->
         IF i = ag_marked THEN a ELSE IF i = ag_unmarked THEN b
         ELSE [k \in {ag_marking} |-> m]] :
        a \in [AggrBpts -> AggrPoints], b \in [AggrBpts -> AggrPoints],
        m \in MarkPoints}

AggrTables(n) == UNION {[1..m -> AggrRows] : m \in 0..n}

\* The bodyparts of the individual whose coordinate c is not NaN in the row.
Present(row, indiv, c) == {b \in AggrBpts : row[indiv][b][c] # NaNPx}

\* df.loc[:, idx[l0, indiv, bpts, c]].mean(axis=1) of one row, as the sum
\* and the count of the values that are not NaN (mean skips NaN).
CoordSum(row, indiv, c) ==
    LET S == Present(row, indiv, c)
    IN  SumOver(S, [b \in S |-> row[indiv][b][c]])

\* df_aggr[(indiv, "dist")] of one row, as the fraction num / den of its
\* square; den = 0 stands for NaN (no bodypart present, or no marking).
\* With k values present in x and in y the centroid is (sx / k, sy / k).
DistOf(row, indiv) ==
    LET kx == Cardinality(Present(row, indiv, "x"))
        ky == Cardinality(Present(row, indiv, "y"))
        mk == row["single"][ag_marking]
    IN  IF kx = 0 \/ ky = 0 \/ mk.x = NaNPx \/ mk.y = NaNPx
        THEN [num |-> 0, den |-> 0]
        ELSE LET dx == ky * (CoordSum(row, indiv, "x") - kx * mk.x)
                 dy == kx * (CoordSum(row, indiv, "y") - ky * mk.y)
             IN  [num |-> dx * dx + dy * dy, den |-> kx * kx * ky * ky]

\* aggregate_df: the dist column of an individual.
DistColumn(t, indiv) == [p \in 1..Len(t) |-> DistOf(t[p], indiv)]

\* Mutant: equal distances count as farther.
DistGreaterEq(a, b) ==
    a.den # 0 /\ b.den # 0 /\ a.num * b.den >= b.num * a.den

\* a > b for two distances; false when either is NaN.
DistGreater(a, b) ==
    a.den # 0 /\ b.den # 0 /\ a.num * b.den > b.num * a.den

\* Mutant: the switch is taken when the marked individual is the closer one.
CurrentAggrLess(dm, du) == [p \in 1..Len(dm) |-> DistGreater(du[p], dm[p])]

\* df_switch["current"] = df_aggr[(marked, "dist")] > df_aggr[(unmarked, "dist")]
CurrentAggr(dm, du) == [p \in 1..Len(dm) |-> DistGreater(dm[p], du[p])]

\* The boolean column as switch_identities reads it.
AsSwitch(c) == [p \in 1..Len(c) |-> IF c[p] THEN "True" ELSE "False"]

InitAggr ==
    /\ pc = "ag_start"
    /\ ag_df \in AggrTables(MaxAggrFrames)
    /\ ag_dist_marked = <<>>
    /\ ag_dist_unmarked = <<>>
    /\ ag_current = <<>>
    /\ ag_out = <<>>
    /\ IdleExceptAggr

\* df_aggr = aggregate_df(df, marking, [marked, unmarked], bpts)
AggregateDf ==
    /\ pc = "ag_start"
    /\ ag_dist_marked' = DistColumn(ag_df, ag_marked)
    /\ ag_dist_unmarked' = DistColumn(ag_df, ag_unmarked)
    /\ pc' = "ag_aggregated"
    /\ UNCHANGED <<ag_df, ag_current, ag_out, exceptAggr>>

\* df_switch = decice_switch(...): the current column.
DeciceCurrent ==
    /\ pc = "ag_aggregated"
    /\ ag_current' = CurrentAggr(ag_dist_marked, ag_dist_unmarked)
    /\ pc' = "ag_decided"
    /\ UNCHANGED <<ag_df, ag_dist_marked, ag_dist_unmarked, ag_out, exceptAggr>>

\* df_switched = switch_identities(df, df_switch["current"], marked, unmarked)
SwitchCurrent ==
    /\ pc = "ag_decided"
    /\ ag_out' = switch_identities(ag_df, AsSwitch(ag_current), ag_marked, ag_unmarked)
    /\ pc' = "ag_switched"
    /\ UNCHANGED <<ag_df, ag_dist_marked, ag_dist_unmarked, ag_current, exceptAggr>>

NextAggr == AggregateDf \/ DeciceCurrent \/ SwitchCurrent

SpecAggr == InitAggr /\ [][NextAggr]_vars

\* The centroid of an individual in a row exists: some configured bodypart
\* is present, and so is the marking.
HasDist(row, indiv) ==
    /\ \E b \in AggrBpts : row[indiv][b] # NaNPoint
    /\ row["single"][ag_marking] # NaNPoint

\* Squared distance between the marking and the centroid of the bodyparts
\* of the individual that are present, times the square of their number k.
SqDistK(row, indiv) ==
    LET S == {b \in AggrBpts : row[indiv][b] # NaNPoint}
        k == Cardinality(S)
        mk == row["single"][ag_marking]
        sx == SumOver(S, [b \in S |-> row[indiv][b].x])
        sy == SumOver(S, [b \in S |-> row[indiv][b].y])
    IN  (sx - k * mk.x) * (sx - k * mk.x) + (sy - k * mk.y) * (sy - k * mk.y)

NumPresent(row, indiv) == Cardinality({b \in AggrBpts : row[indiv][b] # NaNPoint})

\* The centroid of a is strictly farther from the marking than that of b.
StrictlyFarther(row, a, b) ==
    /\ HasDist(row, a)
    /\ HasDist(row, b)
    /\ SqDistK(row, a) * NumPresent(row, b) * NumPresent(row, b)
          > SqDistK(row, b) * NumPresent(row, a) * NumPresent(row, a)

\* C21: current[i] is true exactly when in frame i the centroid of the
\* marked individual (mean of the configured bodyparts that are present) is
\* strictly farther from the marking than the centroid of the unmarked one;
\* equal distances give false.
C21_CurrentIsStrictlyFarther ==
    pc \in {"ag_decided", "ag_switched"} =>
        /\ Len(ag_current) = Len(ag_df)
        /\ \A p \in 1..Len(ag_df) :
              ag_current[p] <=> StrictlyFarther(ag_df[p], ag_marked, ag_unmarked)

C21_Witness ==
    /\ pc = "ag_decided"
    /\ Len(ag_df) = 1
    /\ HasDist(ag_df[1], ag_marked)
    /\ HasDist(ag_df[1], ag_unmarked)
    /\ ag_df[1][ag_marked] # ag_df[1][ag_unmarked]
    /\ NumPresent(ag_df[1], ag_marked) = 1
    /\ SqDistK(ag_df[1], ag_marked) > 0
    /\ ~StrictlyFarther(ag_df[1], ag_marked, ag_unmarked)
    /\ ~StrictlyFarther(ag_df[1], ag_unmarked, ag_marked)
    /\ ~ag_current[1]

\* At least as close: both distances exist and a's is not the larger.
AtLeastAsClose(row, a, b) ==
    /\ HasDist(row, a)
    /\ HasDist(row, b)
    /\ SqDistK(row, a) * NumPresent(row, b) * NumPresent(row, b)
          <= SqDistK(row, b) * NumPresent(row, a) * NumPresent(row, a)

WindowAboveFrom(s) ==
    /\ 0 <= s
    /\ s + st_window_frames <= Len(st_lhoods)
    /\ Median2(SubSeq(LhoodCurrent2(st_lhoods), s + 1, s + st_window_frames))
          > 4 * st_pcutoff

\* C23: when the subject is detected, the stored start_frame is the first
\* frame of the earliest window of window_frames consecutive frames whose
\* median likelihood exceeds pcutoff; it is not before the first frame of
\* the table and the window starting at it lies inside the table.
C23_StartIsEarliestWindow ==
    (pc = "st_done" /\ st_outcome = "") =>
        /\ WindowAboveFrom(st_start_frame)
        /\ \A s \in 0..(st_start_frame - 1) : ~WindowAboveFrom(s)
        /\ 0 <= st_start_frame
        /\ st_start_frame + st_window_frames <= Len(st_lhoods)

C23_Witness ==
    /\ pc = "st_done"
    /\ st_outcome = ""
    /\ st_window_frames = 2
    /\ st_start_frame = 1
    /\ Len(st_lhoods) = 4
    /\ WindowAboveFrom(2)
    /\ \E b \in StartBpts : st_lhoods[2][b] < st_pcutoff

\* ---------------------------- start_frame, stop_frame, start_stop_trim

MaxDurHalves == 4

TrimFps == {2, 3}

\* start_frame as stored by CalculateParams.start_frame.
StartFrameOf(t, w, cutoff) ==
    IF FirstDetection(t, w, cutoff) = "IndexError" THEN 0
    ELSE Min(Detections(t, w, cutoff)) - (w - 1)

\* int(dur_sec * fps), dur_sec given in half seconds: truncation.
DurFrames(halves, fps) == (halves * fps) \div 2

StopWarning == "WARNING: The user specified dur_sec in the configs file is greater"

\* configs.auto.formatted_vid.total_frames: the video has the table's frames.
TotalFrames(t) == Len(t)

\* Mutant: the stop label is excluded.
LocSliceOpen(index, start, stop) ==
    SelectSeq(index, LAMBDA f : start <= f /\ f < stop)

\* df.loc[start_frame:stop_frame, :] on an ascending index: the rows whose
\* label lies in start..stop, both ends included, in order.
LocSlice(index, start, stop) ==
    SelectSeq(index, LAMBDA f : start <= f /\ f <= stop)

\* The index of the table: 0..n-1.
FrameIndex(t) == [p \in 1..Len(t) |-> p - 1]

InitTrim ==
    /\ pc = "tr_start"
    /\ tr_lhoods \in LhoodTables(MaxStartFrames)
    /\ tr_pcutoff \in {Min(PcutoffValues)}
    /\ tr_window_frames \in 1..MaxWindow
    /\ tr_dur_halves \in 0..MaxDurHalves
    /\ tr_fps \in TrimFps
    /\ tr_start_frame = 0 - 1
    /\ tr_stop_frame = 0 - 1
    /\ tr_outcome = ""
    /\ tr_out = <<>>
    /\ IdleExceptTrim

TrimInputs == <<tr_lhoods, tr_pcutoff, tr_window_frames, tr_dur_halves, tr_fps>>

\* CalculateParams.start_frame
TrimStartFrame ==
    /\ pc = "tr_start"
    /\ tr_start_frame' = StartFrameOf(tr_lhoods, tr_window_frames, tr_pcutoff)
    /\ pc' = "tr_started"
    /\ UNCHANGED <<TrimInputs, tr_stop_frame, tr_outcome, tr_out, exceptTrim>>

\* CalculateParams.stop_frame
TrimStopFrame ==
    /\ pc = "tr_started"
    /\ LET stop_frame == tr_start_frame + DurFrames(tr_dur_halves, tr_fps)
       IN  /\ tr_stop_frame' = stop_frame
           /\ tr_outcome' = IF stop_frame > TotalFrames(tr_lhoods)
                            THEN StopWarning ELSE ""
    /\ pc' = "tr_stopped"
    /\ UNCHANGED <<TrimInputs, tr_start_frame, tr_out, exceptTrim>>

\* Preprocess.start_stop_trim
StartStopTrim ==
    /\ pc = "tr_stopped"
    /\ tr_out' = LocSlice(FrameIndex(tr_lhoods), tr_start_frame, tr_stop_frame)
    /\ pc' = "tr_trimmed"
    /\ UNCHANGED <<TrimInputs, tr_start_frame, tr_stop_frame, tr_outcome, exceptTrim>>

NextTrim == TrimStartFrame \/ TrimStopFrame \/ StartStopTrim

SpecTrim == InitTrim /\ [][NextTrim]_vars

\* C24: after start_frame, stop_frame and start_stop_trim, stop_frame is
\* start_frame + int(dur_sec * fps), not clamped to the video length (past
\* it only the warning is added), and the trimmed table holds exactly the
\* input frames f with start_frame <= f <= stop_frame, in their order, so
\* its index is contiguous.
C24_TrimInclusive ==
    pc = "tr_trimmed" =>
        /\ 2 * (tr_stop_frame - tr_start_frame) <= tr_dur_halves * tr_fps
        /\ tr_dur_halves * tr_fps < 2 * (tr_stop_frame - tr_start_frame + 1)
        /\ (tr_outcome # "") <=> (tr_stop_frame > Len(tr_lhoods))
        /\ \A f \in 0..(Len(tr_lhoods) - 1) :
              (\E i \in DOMAIN tr_out : tr_out[i] = f)
                  <=> (tr_start_frame <= f /\ f <= tr_stop_frame)
        /\ \A i \in DOMAIN tr_out : tr_out[i] \in 0..(Len(tr_lhoods) - 1)
        /\ \A i \in 1..(Len(tr_out) - 1) : tr_out[i + 1] = tr_out[i] + 1

C24_Witness ==
    /\ pc = "tr_trimmed"
    /\ tr_start_frame = 1
    /\ tr_stop_frame = 2
    /\ Len(tr_lhoods) = 4
    /\ tr_out = <<1, 2>>
    /\ tr_dur_halves * tr_fps = 3

\* ----------------------------------------------------------- interpolate

MaxInterpFrames == 4

InterpFields == {"x", "y", "likelihood"}

\* The rows of one bodypart: likelihood in percent, NaNPx for NaN. A point
\* that was not detected has no x, y and likelihood.
InterpRows ==
    {[x |-> 0, y |-> 0, likelihood |-> 90],
     [x |-> 6, y |-> 12, likelihood |-> 90],
     [x |-> 6, y |-> 0, likelihood |-> 10],
     [x |-> 6, y |-> 6, likelihood |-> NaNPx],
     [x |-> NaNPx, y |-> NaNPx, likelihood |-> NaNPx]}

InterpTables(n) == UNION {[1..m -> InterpRows] : m \in 0..n}

\* df[(scorer, indiv, bp, "likelihood")].fillna(value=0, inplace=True): the
\* fill is made on the selected column; whether df itself receives it
\* depends on the build (view or copy), given as `inplace`.
FillLikelihood(t, inplace) ==
    [p \in 1..Len(t) |->
        IF inplace /\ t[p].likelihood = NaNPx
        THEN [t[p] EXCEPT !.likelihood = 0] ELSE t[p]]

\* Mutant: a likelihood equal to pcutoff is removed as well.
ToRemoveLe(row, cutoff) ==
    row.likelihood # NaNPx /\ row.likelihood <= cutoff

\* to_remove = likelihood < pcutoff; a comparison with NaN is false.
ToRemove(row, cutoff) ==
    row.likelihood # NaNPx /\ row.likelihood < cutoff

\* The loop body: fillna of the likelihood, x and y of the low-likelihood
\* rows set to NaN.
RemoveLow(t, cutoff, inplace) ==
    LET f == FillLikelihood(t, inplace)
    IN  [p \in 1..Len(t) |->
            IF ToRemove(f[p], cutoff)
            THEN [f[p] EXCEPT !.x = NaNPx, !.y = NaNPx] ELSE f[p]]

\* The interpolated values are held times the least common multiple of the
\* possible gap lengths.
InterpScale == Lcm1(MaxInterpFrames, 1)

Max(S) == CHOOSE x \in S : \A y \in S : y <= x

\* interpolate(method="linear", axis=0).bfill().ffill() and fillna(0) on one
\* column: a NaN between two values lies on the line between them, a NaN
\* after the last value takes it, a NaN before the first value takes that,
\* and a column without any value becomes 0.
InterpColumn(col) ==
    LET valid == {q \in 1..Len(col) : col[q] # NaNPx}
    IN  [p \in 1..Len(col) |->
            IF p \in valid THEN InterpScale * col[p]
            ELSE LET before == {q \in valid : q < p}
                     after == {q \in valid : q > p}
                 IN  IF before # {} /\ after # {}
                     THEN LET i == Max(before)
                              j == Min(after)
                          IN  InterpScale * col[i]
                                  + (InterpScale \div (j - i)) * (col[j] - col[i]) * (p - i)
                     ELSE IF before # {} THEN InterpScale * col[Max(before)]
                     ELSE IF after # {} THEN InterpScale * col[Min(after)]
                     ELSE 0]

\* The three columns filled, row by row.
InterpFill(t) ==
    [p \in 1..Len(t) |->
        [c \in InterpFields |-> InterpColumn([q \in 1..Len(t) |-> t[q][c]])[p]]]

InitInterp ==
    /\ pc = "ip_start"
    /\ ip_df \in InterpTables(MaxInterpFrames)
    /\ ip_pcutoff \in PcutoffValues \cup {90}
    /\ ip_fillna_inplace \in BOOLEAN
    /\ ip_removed = <<>>
    /\ ip_out = <<>>
    /\ IdleExceptInterp

\* The loop over the (scorer, individual, bodypart) groups.
InterpRemove ==
    /\ pc = "ip_start"
    /\ ip_removed' = RemoveLow(ip_df, ip_pcutoff, ip_fillna_inplace)
    /\ pc' = "ip_removed"
    /\ UNCHANGED <<ip_df, ip_pcutoff, ip_fillna_inplace, ip_out, exceptInterp>>

\* df.interpolate(...).bfill().ffill(), df.fillna(0), write_feather
InterpWrite ==
    /\ pc = "ip_removed"
    /\ ip_out' = InterpFill(ip_removed)
    /\ pc' = "ip_done"
    /\ UNCHANGED <<ip_df, ip_pcutoff, ip_fillna_inplace, ip_removed, exceptInterp>>

NextInterp == InterpRemove \/ InterpWrite

SpecInterp == InitInterp /\ [][NextInterp]_vars

\* The likelihood of frame p is at or above pcutoff.
AtOrAbove(p) ==
    ip_df[p].likelihood # NaNPx /\ ip_df[p].likelihood >= ip_pcutoff

\* Frame p keeps its coordinates through the removal: it has some, and its
\* likelihood is not below pcutoff (a missing likelihood counts as 0 where
\* the fill reached the table).
Retained(p) ==
    /\ ip_df[p].x # NaNPx
    /\ ip_df[p].likelihood # NaNPx => ip_df[p].likelihood >= ip_pcutoff
    /\ ip_df[p].likelihood = NaNPx => ~ip_fillna_inplace

\* The nearest retained frames before and after p.
NearestBefore(p, i) ==
    i < p /\ Retained(i) /\ \A q \in (i + 1)..(p - 1) : ~Retained(q)

NearestAfter(p, j) ==
    p < j /\ Retained(j) /\ \A q \in (p + 1)..(j - 1) : ~Retained(q)

\* C25: interpolate leaves x and y of every frame whose likelihood is at or
\* above pcutoff unchanged; a coordinate that changes has a missing or low
\* likelihood, and it is replaced by the point on the line between the
\* nearest kept frames before and after it, by the nearest kept value at the
\* start or end, or by 0 when no frame is kept; the output has no missing
\* value.
C25_InterpolateKeepsGoodPoints ==
    pc = "ip_done" =>
        /\ Len(ip_out) = Len(ip_df)
        /\ \A p \in 1..Len(ip_df) : \A c \in {"x", "y"} :
              /\ AtOrAbove(p) => ip_out[p][c] = InterpScale * ip_df[p][c]
              /\ ip_out[p][c] # InterpScale * ip_df[p][c] => ~AtOrAbove(p)
              /\ ip_out[p][c] >= 0
              /\ ip_out[p]["likelihood"] >= 0
              /\ ~Retained(p) =>
                    /\ \A i, j \in 1..Len(ip_df) :
                          (NearestBefore(p, i) /\ NearestAfter(p, j)) =>
                              (j - i) * ip_out[p][c]
                                  = InterpScale * ((j - p) * ip_df[i][c] + (p - i) * ip_df[j][c])
                    /\ \A i \in 1..Len(ip_df) :
                          (NearestBefore(p, i) /\ ~\E j \in 1..Len(ip_df) : NearestAfter(p, j))
                              => ip_out[p][c] = InterpScale * ip_df[i][c]
                    /\ \A j \in 1..Len(ip_df) :
                          (NearestAfter(p, j) /\ ~\E i \in 1..Len(ip_df) : NearestBefore(p, i))
                              => ip_out[p][c] = InterpScale * ip_df[j][c]
                    /\ (~\E q \in 1..Len(ip_df) : Retained(q)) => ip_out[p][c] = 0

C25_Witness ==
    /\ pc = "ip_done"
    /\ Len(ip_df) = 4
    /\ AtOrAbove(1) /\ ~Retained(2) /\ ~Retained(3) /\ AtOrAbove(4)
    /\ ip_df[2].likelihood # NaNPx /\ ip_df[2].x # NaNPx
    /\ ip_df[1].y # ip_df[4].y
    /\ ip_df[4].likelihood = ip_pcutoff
    /\ ip_out[2].y # InterpScale * ip_df[2].y
    /\ ip_out[2].y # ip_out[3].y

\* ------------------------------------------------------------ C26

\* The frames merge_bouts turned from 0 to 1.
FilledFrames == {i \in 1..Len(vect) : i <= Len(merged) /\ vect[i] = 0 /\ merged[i] = 1}

\* C26: merge_bouts fills only periods that lie between two behaviour bouts:
\* every frame it changes from 0 to 1 has a 1-frame somewhere before it and a
\* 1-frame somewhere after it in the input, so a series without any behaviour
\* frame is returned unchanged.
C26_FillsOnlyBetweenBouts ==
    pc = "merged" =>
        /\ \A i \in FilledFrames :
              /\ \E j \in 1..(i - 1) : vect[j] = 1
              /\ \E j \in (i + 1)..Len(vect) : vect[j] = 1
        /\ (\A i \in 1..Len(vect) : vect[i] = 0) => merged = vect

\* ------------------------------------------------------------ TimeSeriesDataset
\* base_torch_model.py: arrays are sequences, row r of a numpy array (0-based)
\* is element r + 1 of the sequence.

MaxTsRows == 3
MaxTsWindow == 2

TsValues == 1..2

\* The arrays x: every array of 1..n rows over TsValues, and the arrays whose
\* rows are all different (row r holds r + 1).
TsArrays(n) ==
    UNION {[1..m -> TsValues] : m \in 1..n} \cup {[j \in 1..m |-> j] : m \in 1..n}

TsLabels(n) == [1..n -> {0, 1}]

\* The index arrays passed: one or two label positions of an n-row array.
TsIndexes(n) == UNION {[1..m -> 0..(n - 1)] : m \in 1..2}

TsBatchSizes == 1..2

\* np.zeros(n)
Zeros(n) == [j \in 1..n |-> 0]

\* a[start:end] for 0 <= start <= end
PySlice(a, start, end) == SubSeq(a, start + 1, Min({end, Len(a)}))

\* Mutant: both pads repeat the first row.
pad_arr_first(x, n) ==
    [j \in 1..(Len(x) + 2 * n) |->
        IF j <= n \/ j > n + Len(x) THEN x[1] ELSE x[j - n]]

\* TimeSeriesDataset.pad_arr: n copies of the first row, x, n copies of the last.
pad_arr(x, n) ==
    [j \in 1..(Len(x) + 2 * n) |->
        IF j <= n THEN x[1]
        ELSE IF j > n + Len(x) THEN x[Len(x)]
        ELSE x[j - n]]

\* TimeSeriesDataset.__init__: x is padded first, and the defaults of y and of
\* index are then made from the shape of the padded x.
TimeSeriesDataset(x, has_y, y, has_index, index, n) ==
    LET px == pad_arr(x, n)
    IN  [x |-> px,
         y |-> IF has_y THEN y ELSE Zeros(Len(px)),
         index |-> IF has_index THEN index ELSE Arange(0, Len(px), 1),
         window_frames |-> n]

\* TimeSeriesDataset.__len__
DsLen(ds) == Len(ds.index)

\* TimeSeriesDataset.__getitem__(pos); y[i] past the end of y raises IndexError.
GetItem(ds, pos) ==
    LET i == ds.index[pos + 1]
        start == i
        end == i + 2 * ds.window_frames + 1
    IN  IF i + 1 > Len(ds.y)
        THEN [pos |-> pos, i |-> i, x |-> <<>>, y |-> 0, raised |-> TRUE]
        ELSE [pos |-> pos, i |-> i, x |-> PySlice(ds.x, start, end),
              y |-> ds.y[i + 1], raised |-> FALSE]

\* DataLoader(ds, batch_size, shuffle=False): item pos is in batch pos // b, and
\* the windows of one batch are stacked, which needs them to have one shape.
CollateRaises(ds, b) ==
    \E p, q \in 0..(DsLen(ds) - 1) :
        /\ p \div b = q \div b
        /\ Len(GetItem(ds, p).x) # Len(GetItem(ds, q).x)

\* self(inputs): the network is built for windows of 2n+1 frames; what it does
\* with a shorter window depends on the network (net_short).
ForwardRaises(ds, net_short) ==
    /\ ~net_short
    /\ \E p \in 0..(DsLen(ds) - 1) :
          Len(GetItem(ds, p).x) < 2 * ds.window_frames + 1

\* BaseTorchModel._inference: one row of probs_all per item of the dataset,
\* held here as the label position the row was computed for.
Inference(ds, b, net_short) ==
    IF CollateRaises(ds, b) \/ ForwardRaises(ds, net_short)
    THEN [outcome |-> "raised", probs |-> <<>>]
    ELSE [outcome |-> "returned", probs |-> [j \in 1..DsLen(ds) |-> ds.index[j]]]

\* BaseTorchModel.predict: predict_loader (no y), then _inference.
Predict(x, has_index, index, n, b, net_short) ==
    Inference(TimeSeriesDataset(x, FALSE, <<>>, has_index, index, n), b, net_short)

InitTsd ==
    /\ pc = "ts_start"
    /\ ts_x \in TsArrays(MaxTsRows)
    /\ ts_has_y \in BOOLEAN
    /\ ts_y \in (IF ts_has_y THEN TsLabels(Len(ts_x)) ELSE {<<>>})
    /\ ts_has_index \in BOOLEAN
    /\ ts_index \in (IF ts_has_index THEN TsIndexes(Len(ts_x)) ELSE {<<>>})
    /\ ts_window_frames \in 0..MaxTsWindow
    /\ ts_batch_size \in TsBatchSizes
    /\ ts_net_short \in BOOLEAN
    /\ ts_ds = [x |-> <<>>, y |-> <<>>, index |-> <<>>, window_frames |-> 0]
    /\ ts_item = [pos |-> 0 - 1, i |-> 0 - 1, x |-> <<>>, y |-> 0, raised |-> FALSE]
    /\ ts_pred = [outcome |-> "", probs |-> <<>>]
    /\ IdleExceptTsd

\* TimeSeriesDataset(x=x, y=y, index=index, window_frames=window_frames)
TsConstruct ==
    /\ pc = "ts_start"
    /\ ts_ds' = TimeSeriesDataset(ts_x, ts_has_y, ts_y, ts_has_index, ts_index,
                                  ts_window_frames)
    /\ pc' = "ts_built"
    /\ UNCHANGED <<ts_x, ts_has_y, ts_y, ts_has_index, ts_index, ts_window_frames,
                   ts_batch_size, ts_net_short, ts_item, ts_pred, exceptTsd>>

\* ds[pos] for a position below len(ds)
TsGetItem ==
    /\ pc = "ts_built"
    /\ \E pos \in 0..(DsLen(ts_ds) - 1) : ts_item' = GetItem(ts_ds, pos)
    /\ UNCHANGED <<pc, ts_x, ts_has_y, ts_y, ts_has_index, ts_index,
                   ts_window_frames, ts_batch_size, ts_net_short, ts_ds, ts_pred,
                   exceptTsd>>

\* model.predict(x, batch_size, index)
TsPredict ==
    /\ pc = "ts_start"
    /\ ~ts_has_y
    /\ ts_pred' = Predict(ts_x, ts_has_index, ts_index, ts_window_frames,
                          ts_batch_size, ts_net_short)
    /\ pc' = "ts_predicted"
    /\ UNCHANGED <<ts_x, ts_has_y, ts_y, ts_has_index, ts_index, ts_window_frames,
                   ts_batch_size, ts_net_short, ts_ds, ts_item, exceptTsd>>

NextTsd == TsConstruct \/ TsGetItem \/ TsPredict

SpecTsd == InitTsd /\ [][NextTsd]_vars

\* ------------------------------------------------------------ C27

\* clamp(j) for an N-row array: positions below 0 give row 0, above N-1 row N-1.
Clamp(j, n) == IF j < 0 THEN 0 ELSE IF j > n - 1 THEN n - 1 ELSE j

\* The rows clamp(i-n), ..., clamp(i+n) of x.
CentredRows(x, i, n) ==
    [k \in 1..(2 * n + 1) |-> x[Clamp(i - n + k - 1, Len(x)) + 1]]

\* C27: for every label position i in 0..N-1 the item is the window of exactly
\* 2n+1 frames made of the rows clamp(i-n), ..., clamp(i+n) of the original
\* array, paired with the label y[i].
C27_ItemIsCentredWindow ==
    (ts_item.pos >= 0 /\ ts_item.i <= Len(ts_x) - 1) =>
        /\ ~ts_item.raised
        /\ Len(ts_item.x) = 2 * ts_window_frames + 1
        /\ ts_item.x = CentredRows(ts_x, ts_item.i, ts_window_frames)
        /\ ts_has_y => ts_item.y = ts_y[ts_item.i + 1]

\* C27 witness: an item of a labelled array whose window reaches past both ends
\* of the array, so that rows are repeated on both sides.
C27_Witness ==
    /\ ts_item.pos >= 0
    /\ ts_has_y
    /\ ts_item.y = 1
    /\ ts_window_frames >= 1
    /\ Len(ts_x) >= 2
    /\ ts_item.i - ts_window_frames < 0
    /\ ts_item.i + ts_window_frames > Len(ts_x) - 1
    /\ ts_x[1] # ts_x[Len(ts_x)]

\* ------------------------------------------------------------ C28

\* C28: without an index the dataset of an N-row array has N items, each with
\* a full window of 2*window_frames+1 frames, and predict returns one
\* probability per input row.
C28_OneItemPerRow ==
    /\ (pc = "ts_built" /\ ~ts_has_index) =>
          /\ DsLen(ts_ds) = Len(ts_x)
          /\ \A p \in 0..(DsLen(ts_ds) - 1) :
                Len(GetItem(ts_ds, p).x) = 2 * ts_window_frames + 1
    /\ (pc = "ts_predicted" /\ ~ts_has_index) =>
          /\ ts_pred.outcome = "returned"
          /\ ts_pred.probs = Arange(0, Len(ts_x), 1)

\* ------------------------------------------------------------ px and mm
\* Analyse.freezing turns thresh_mm into thresh_px; Analyse.speed turns a
\* displacement in pixels into millimetres. Floats are held as exact fractions.

MaxThreshMm == 4
MaxDeltaPx == 6

\* px_per_mm: 1/2, 1, 2 and 3 pixels per millimetre.
PxPerMmFractions ==
    {[num |-> 1, den |-> 2], [num |-> 1, den |-> 1], [num |-> 2, den |-> 1],
     [num |-> 3, den |-> 1]}

\* thresh_px = thresh_mm / px_per_mm
ThreshToPx(mm, ppm) == [num |-> mm * ppm.den, den |-> ppm.num]

\* delta / px_per_mm
PxToMm(px, ppm) == [num |-> px * ppm.den, den |-> ppm.num]

\* value < a / b for a fraction with b > 0
IntBelowFrac(value, frac) == value * frac.den < frac.num

\* a / b < value for a fraction with b > 0
FracBelowInt(frac, value) == frac.num < value * frac.den

InitThresh ==
    /\ pc = "th_start"
    /\ th_thresh_mm \in 1..MaxThreshMm
    /\ th_px_per_mm \in PxPerMmFractions
    /\ th_delta \in 0..MaxDeltaPx
    /\ th_thresh_px = [num |-> 0, den |-> 0]
    /\ th_below_px = FALSE
    /\ th_delta_mm = [num |-> 0, den |-> 0]
    /\ IdleExceptThresh

\* Analyse.freezing: thresh_px, then the test of a displacement against it.
ThreshFreezing ==
    /\ pc = "th_start"
    /\ th_thresh_px' = ThreshToPx(th_thresh_mm, th_px_per_mm)
    /\ th_below_px' = IntBelowFrac(th_delta, ThreshToPx(th_thresh_mm, th_px_per_mm))
    /\ pc' = "th_frozen"
    /\ UNCHANGED <<th_thresh_mm, th_px_per_mm, th_delta, th_delta_mm, exceptThresh>>

\* Analyse.speed: the same displacement in millimetres.
ThreshSpeed ==
    /\ pc = "th_frozen"
    /\ th_delta_mm' = PxToMm(th_delta, th_px_per_mm)
    /\ pc' = "th_done"
    /\ UNCHANGED <<th_thresh_mm, th_px_per_mm, th_delta, th_thresh_px, th_below_px,
                   exceptThresh>>

NextThresh == ThreshFreezing \/ ThreshSpeed

SpecThresh == InitThresh /\ [][NextThresh]_vars

\* ------------------------------------------------------------ C29

\* C29: the pixel threshold of freezing agrees with the conversion of speed
\* (mm = px / px_per_mm): a displacement of d pixels is below thresh_px exactly
\* when d / px_per_mm is below thresh_mm.
C29_ThresholdMatchesConversion ==
    pc = "th_done" => (th_below_px <=> FracBelowInt(th_delta_mm, th_thresh_mm))

\* ------------------------------------------------------------ single-process batches
\* Project.classify_behaviours and Project.export_behaviours: Project.nprocs is
\* bt_nprocs, and the batch in between is _process_scaffold as modelled above.

SingleMethods == {"classify_behaviours", "export_behaviours"}

InitSingle ==
    /\ pc = "sg_start"
    /\ sg_method \in SingleMethods
    /\ sg_saved = 0
    /\ bt_exps \in SUBSET ExpNames
    /\ bt_fails \in SUBSET bt_exps
    /\ bt_nprocs \in NprocsValues
    /\ sg_before = bt_nprocs
    /\ bt_pending = <<>>
    /\ bt_running = {}
    /\ bt_results = <<>>
    /\ bt_finish_order = <<>>
    /\ bt_dd_ls = <<>>
    /\ bt_diag = <<>>
    /\ BoutsIdle /\ VoteIdle /\ SwitchIdle /\ RefineIdle /\ FreezeIdle /\ SpeedIdle
    /\ SocialIdle /\ StartIdle /\ ProjectIdle /\ AggrIdle /\ TrimIdle /\ InterpIdle
    /\ TsdIdle /\ ThreshIdle

\* nprocs = self.nprocs; self.nprocs = 1; then _process_scaffold is entered.
SingleEnter ==
    /\ pc = "sg_start"
    /\ sg_saved' = bt_nprocs
    /\ bt_nprocs' = 1
    /\ pc' = "bt_start"
    /\ UNCHANGED <<sg_method, sg_before, bt_exps, bt_fails, bt_pending, bt_running,
                   bt_results, bt_finish_order, bt_dd_ls, bt_diag,
                   coreVars, refineVars, freezeVars, speedVars, socialVars,
                   startVars, projectVars, aggrVars, trimVars, interpVars,
                   tsdVars, threshVars>>

\* _process_scaffold returned: self.nprocs = nprocs.
SingleReturn ==
    /\ pc = "bt_saved"
    /\ bt_nprocs' = sg_saved
    /\ pc' = "sg_returned"
    /\ UNCHANGED <<sg_method, sg_saved, sg_before, bt_exps, bt_fails, bt_pending,
                   bt_running, bt_results, bt_finish_order, bt_dd_ls, bt_diag,
                   coreVars, refineVars, freezeVars, speedVars, socialVars,
                   startVars, projectVars, aggrVars, trimVars, interpVars,
                   tsdVars, threshVars>>

\* _process_scaffold raised: the exception leaves the method before the last
\* assignment, there is no try/finally.
SingleRaise ==
    /\ pc = "bt_raised"
    /\ pc' = "sg_raised"
    /\ UNCHANGED <<sg_method, sg_saved, sg_before, batchVars,
                   coreVars, refineVars, freezeVars, speedVars, socialVars,
                   startVars, projectVars, aggrVars, trimVars, interpVars,
                   tsdVars, threshVars>>

NextSingle ==
    \/ SingleEnter
    \/ BatchStart
    \/ SpStep
    \/ SpEmpty
    \/ BatchSave
    \/ SingleReturn
    \/ SingleRaise

SpecSingle == InitSingle /\ [][NextSingle]_vars

\* ------------------------------------------------------------ C30

\* The batch of the method is running.
SingleRunning == pc \in {"bt_start", "bt_sp", "bt_mp", "bt_collected", "bt_saved", "bt_raised"}

\* C30: classify_behaviours and export_behaviours run the batch in
\* single-process mode and leave Project.nprocs at its value before the call
\* once the call ends, normally or because processing an experiment raised.
C30_SingleProcessAndRestored ==
    /\ SingleRunning => (bt_nprocs = 1 /\ pc # "bt_mp")
    /\ pc \in {"sg_returned", "sg_raised"} => bt_nprocs = sg_before

\* ------------------------------------------------------------ whole model

Init == InitBouts \/ InitVote \/ InitSwitch \/ InitRefine \/ InitFreeze \/ InitSpeed \/ InitSocial \/ InitStart \/ InitBatch \/ InitProject \/ InitAggr \/ InitTrim \/ InitInterp \/ InitTsd \/ InitThresh \/ InitSingle

Next == NextBouts \/ NextVote \/ NextSwitch \/ NextRefine \/ NextFreeze \/ NextSpeed \/ NextSocial \/ NextStart \/ NextBatch \/ NextProject \/ NextAggr \/ NextTrim \/ NextInterp \/ NextTsd \/ NextThresh \/ NextSingle

Spec == Init /\ [][Next]_vars

====
